---- MODULE Spec2Model ----
(***************************************************************************)
(* A model of the middleware service core (middlewared/service.py):        *)
(*   - the job scheduler declared by the @job decorator (lock admission,   *)
(*     wait queues, lifecycle, transient jobs);                            *)
(*   - ConfigService._get_or_insert (double-checked insert of the default  *)
(*     row under get_or_insert_lock);                                      *)
(*   - CRUDService create / update / delete / get_instance / query and     *)
(*     the dependency guard (check_dependencies / get_dependencies);       *)
(*   - the TDBWrap* services (clustered backend, health cache, versions);  *)
(*   - ConfigService.update, CoreService.bulk, the lock(key) decorator     *)
(*     and the job notifications;                                          *)
(*   - the throttle decorator, TDBWrapConfigService.direct_update one      *)
(*     await at a time, and tdb_defaults as a shared object;               *)
(*   - TNCHostnameService.sync_interface_ips (truenas_connect/hostname.py).*)
(* Each part has its own specification over the shared variable tuple;     *)
(* the variables of the other parts stay at their idle values.             *)
(***************************************************************************)
EXTENDS Integers, Sequences, FiniteSets, TLC

VARIABLES
    \* ---- job scheduler
    jobs,        \* job id -> [method, state, result, error]; every job ever created
    holder,      \* lock key -> id of the job holding the lock (0: free)
    queue,       \* lock key -> sequence of job ids WAITING on the lock (FIFO)
    listed,      \* ids in the job table that core.get_jobs lists
    lockDecl,    \* lock key -> [limited, size]: the declared lock_queue_size
    submitRet,   \* [method, id, created]: outcome of the latest submission
    abortRet,    \* [id, cancelled]: the latest abort request and whether it cancelled the job
    \* ---- ConfigService._get_or_insert
    cfgRows,     \* rows of the config datastore (sequence of records)
    cfgInserts,  \* number of datastore.insert calls performed
    cfgInitial,  \* number of rows the datastore had at start
    goiLock,     \* holder of get_or_insert_lock (0: free)
    cpc,         \* caller -> position inside config()/_get_or_insert
    cret,        \* caller -> value returned by config()
    \* ---- CRUDService
    svc,         \* the service descriptor (_config) and its do_* hooks' shape
    rows,        \* rows of the service's datastore, ordered by primary key
    crudCall,    \* caller -> the create/update/delete it is in, between do_* and the post hook
    nextPk,      \* next primary key the datastore generates
    depRows,     \* referencing datastore -> set of ids its rows' foreign key holds
    crudOp,      \* record of the latest create/update/delete/get_instance call
    qOp,         \* record of the latest query call
    \* ---- TDBWrapConfigService / TDBWrapCRUDService
    tsvc,        \* the wrapper under consideration: [kind, extend]
    now,         \* time.monotonic()
    status,      \* cached result of the last cluster health check
    last_check,  \* time of the last cluster health check
    tdb,         \* the replicated backend's stored payload [stamped, version, has, data]
    localDs,     \* the local datastore used when not clustered
    tdbCall,     \* call slot -> the wrapper call in flight there: position, arguments, record
    \* ---- cluster_healthy() taken step by step
    hpc,         \* caller -> position inside cluster_healthy()
    hnow,        \* caller -> the value of time.monotonic() it read
    hret,        \* caller -> [value, probed, raised]: what its latest call returned
    probeLog,    \* invocations of the health predicate: [at, last] in order
    \* ---- ConfigService.update
    cfgData,     \* the settings held by the config row
    cfgOp,       \* record of the update call that stepped last
    cfgCall,     \* caller -> where its update call is suspended, with what it holds
    \* ---- CoreService.bulk
    bParams,     \* the params list of the running core.bulk call
    bDescr,      \* its description argument: "none", "ok" or "bad" (format fails)
    bPc,         \* position inside bulk
    bIdx,        \* index of the element being processed
    bStatuses,   \* the statuses collected so far
    bLog,        \* calls and waits performed, in order
    \* ---- lock(key) decorator
    lkFns,       \* execution -> [kind, key]: the wrapped function it runs
    lkPc,        \* execution -> position inside the wrapper l_fn
    LOCKS,       \* key -> execution holding the asyncio lock (0: free)
    THREADING_LOCKS, \* key -> execution holding the threading lock (0: free)
    \* ---- job notifications
    jobEvents,   \* the core.get_jobs notifications sent so far: [kind, id]
    jobProgress, \* job id -> the percent its body last reported
    \* ---- throttle decorator
    thDeco,      \* the decorator's arguments: [seconds, condition, max_waiters]
    thNow,       \* time.monotonic()
    last_calls,  \* key -> time of the last registered call (0 when absent)
    thPc,        \* caller -> position inside the wrapper
    thKey,       \* caller -> the key its call is throttled under
    thLog,       \* key -> times at which calls were registered, in order
    \* ---- TNCHostnameService.sync_interface_ips
    tncIps,      \* tn_connect config: the directly configured ips
    tncDsIps,    \* truenas_connect row: interfaces_ips
    tncCache,    \* cache entry TNC_IPS_CACHE_KEY: [has, ips]
    tncPc,       \* sync call -> position inside sync_interface_ips
    tncLocal,    \* sync call -> its locals [ips, seen, resp, sent, after]
    tncCalls,    \* sync call -> the calls it made so far, in order
    \* ---- TDBWrapConfigService.direct_update taken step by step
    duPc,        \* call -> position inside direct_update
    duArg,       \* call -> its data argument
    duOld,       \* call -> the payload it read with tdb.config
    duRet,       \* call -> what it returned or raised
    \* ---- tdb_defaults as an object shared by the wrapper's methods
    dfSvc,       \* the wrapper: [kind, tdb_defaults as configured in the class body]
    dfDefaults,  \* the current content of the class attribute tdb_defaults
    dfRet,       \* caller -> the object it was last handed: [has, shared, value]
    dfStore,     \* what the calls wrote to the replicated backend: [has, value]
    dfOp         \* the latest operation: [op, why]

jobVars    == <<jobs, holder, queue, listed, lockDecl, submitRet, abortRet>>
configVars == <<cfgRows, cfgInserts, cfgInitial, goiLock, cpc, cret>>
crudVars   == <<svc, rows, nextPk, depRows, crudOp, qOp, crudCall>>
tdbVars    == <<tsvc, now, status, last_check, tdb, localDs, tdbCall>>
healthVars == <<hpc, hnow, hret, probeLog>>
cfgUpdVars == <<cfgData, cfgOp, cfgCall>>
bulkVars   == <<bParams, bDescr, bPc, bIdx, bStatuses, bLog>>
lockVars   == <<lkFns, lkPc, LOCKS, THREADING_LOCKS>>
evVars     == <<jobEvents, jobProgress>>
throttleVars == <<thDeco, thNow, last_calls, thPc, thKey, thLog>>
tncVars    == <<tncIps, tncDsIps, tncCache, tncPc, tncLocal, tncCalls>>
duVars     == <<duPc, duArg, duOld, duRet>>
dfVars     == <<dfSvc, dfDefaults, dfRet, dfStore, dfOp>>
vars       == <<jobVars, configVars, crudVars, tdbVars, healthVars, cfgUpdVars, bulkVars, lockVars, evVars, throttleVars, tncVars, duVars, dfVars>>

\* ------------------------------------------------------------------------
\* Bounds of the model.
MaxJobs == 3
MaxLockQueueSize == 2
NumCallers == 3
MaxPk == 2
MaxEntries == 1
MaxNow == 60
TickStep == 30
MaxTdbNow == 30
NumHealthCallers == 2
HealthTickStep == 10
MaxSetting == 2
MaxParams == 2
NumExecutions == 3
MaxNotifiedJobs == 2
NumReaders == 2
NumUpdaters == 2
MaxFairJobs == 3
NumThrottled == 2
MaxThrottleNow == 4
MaxPeriod == 1
MaxWaiters == 1

\* ------------------------------------------------------------------------
\* Generic helpers.
Last(s) == s[Len(s)]

RECURSIVE SeqToSet(_)
SeqToSet(s) == IF s = <<>> THEN {} ELSE {Head(s)} \cup SeqToSet(Tail(s))

\* ========================================================================
\* JOB SCHEDULER
\* ========================================================================
LockKeys == {"disk:sda", "pool:tank"}
NoLock == ""

\* The options the @job decorator attaches to a method (fn._job): one
\* entry per job-wrapped method of the running system.
JobMethodNames == {"disk.wipe", "disk.smart", "pool.scrub", "alert.process"}

JobOptions(m) ==
    CASE m = "disk.wipe"     -> [lock |-> "disk:sda",  transient |-> FALSE, abortable |-> TRUE,  mode |-> "loop"]
      [] m = "disk.smart"    -> [lock |-> "disk:sda",  transient |-> TRUE,  abortable |-> FALSE, mode |-> "thread"]
      [] m = "pool.scrub"    -> [lock |-> "pool:tank", transient |-> FALSE, abortable |-> TRUE,  mode |-> "process"]
      [] m = "alert.process" -> [lock |-> NoLock,      transient |-> TRUE,  abortable |-> TRUE,  mode |-> "loop"]

TerminalStates == {"SUCCESS", "FAILED", "ABORTED"}

JobLock(j) == JobOptions(jobs[j].method).lock
JobTransient(j) == JobOptions(jobs[j].method).transient

LockFreeAlways(L) == TRUE

\* A lock is free when no job holds it.
LockFree(L) == holder[L] = 0

QueueFullOffByOne(L) ==
    lockDecl[L].limited /\ Len(queue[L]) > lockDecl[L].size

\* Admission control: the lock declares a maximum wait-queue length and
\* the queue is already at that length.
QueueFull(L) ==
    lockDecl[L].limited /\ Len(queue[L]) >= lockDecl[L].size

NewJobAlwaysWaiting(m, st) == [method |-> m, state |-> "WAITING", result |-> "none", error |-> "none"]

NewJob(m, st) == [method |-> m, state |-> st, result |-> "none", error |-> "none"]

\* Submission of a job-wrapped method.
Submit(m) ==
    LET L  == JobOptions(m).lock
        id == Len(jobs) + 1
    IN  /\ IF L = NoLock
           THEN /\ Len(jobs) < MaxJobs
                /\ jobs' = Append(jobs, NewJob(m, "RUNNING"))
                /\ listed' = listed \cup {id}
                /\ submitRet' = [method |-> m, id |-> id, created |-> TRUE]
                /\ UNCHANGED <<holder, queue>>
           ELSE IF LockFree(L)
           THEN /\ Len(jobs) < MaxJobs
                /\ jobs' = Append(jobs, NewJob(m, "RUNNING"))
                /\ holder' = [holder EXCEPT ![L] = id]
                /\ listed' = listed \cup {id}
                /\ submitRet' = [method |-> m, id |-> id, created |-> TRUE]
                /\ UNCHANGED queue
           ELSE IF QueueFull(L)
           THEN /\ submitRet' = [method |-> m, id |-> Last(queue[L]), created |-> FALSE]
                /\ UNCHANGED <<jobs, holder, queue, listed>>
           ELSE /\ Len(jobs) < MaxJobs
                /\ jobs' = Append(jobs, NewJob(m, "WAITING"))
                /\ queue' = [queue EXCEPT ![L] = Append(@, id)]
                /\ listed' = listed \cup {id}
                /\ submitRet' = [method |-> m, id |-> id, created |-> TRUE]
                /\ UNCHANGED holder
        /\ UNCHANGED <<lockDecl, abortRet>>

ListedKeepsTransient(j) == listed

\* The job table after job j reached a terminal state: a transient job is
\* removed from what core.get_jobs lists.
ListedAfterFinish(j) ==
    IF JobTransient(j) THEN listed \ {j} ELSE listed

TerminateKeepsLockOnAbort(j, st, res, err) ==
    LET L    == JobLock(j)
        done == [jobs EXCEPT ![j].state = st, ![j].result = res, ![j].error = err]
    IN  /\ listed' = ListedAfterFinish(j)
        /\ IF L = NoLock \/ st = "ABORTED"
           THEN /\ jobs' = done
                /\ UNCHANGED <<holder, queue>>
           ELSE IF queue[L] = <<>>
           THEN /\ jobs' = done
                /\ holder' = [holder EXCEPT ![L] = 0]
                /\ UNCHANGED queue
           ELSE /\ jobs' = [done EXCEPT ![Head(queue[L])].state = "RUNNING"]
                /\ holder' = [holder EXCEPT ![L] = Head(queue[L])]
                /\ queue' = [queue EXCEPT ![L] = Tail(@)]
        /\ UNCHANGED <<lockDecl, submitRet>>

TerminatePromotesLast(j, st, res, err) ==
    LET L    == JobLock(j)
        done == [jobs EXCEPT ![j].state = st, ![j].result = res, ![j].error = err]
    IN  /\ listed' = ListedAfterFinish(j)
        /\ IF L = NoLock
           THEN /\ jobs' = done
                /\ UNCHANGED <<holder, queue>>
           ELSE IF queue[L] = <<>>
           THEN /\ jobs' = done
                /\ holder' = [holder EXCEPT ![L] = 0]
                /\ UNCHANGED queue
           ELSE /\ jobs' = [done EXCEPT ![Last(queue[L])].state = "RUNNING"]
                /\ holder' = [holder EXCEPT ![L] = Last(queue[L])]
                /\ queue' = [queue EXCEPT ![L] = SubSeq(@, 1, Len(@) - 1)]
        /\ UNCHANGED <<lockDecl, submitRet>>

\* Job j leaves RUNNING for terminal state st; its lock is released and the
\* head of the lock's wait queue is promoted to RUNNING.
Terminate(j, st, res, err) ==
    LET L    == JobLock(j)
        done == [jobs EXCEPT ![j].state = st, ![j].result = res, ![j].error = err]
    IN  /\ listed' = ListedAfterFinish(j)
        /\ IF L = NoLock
           THEN /\ jobs' = done
                /\ UNCHANGED <<holder, queue>>
           ELSE IF queue[L] = <<>>
           THEN /\ jobs' = done
                /\ holder' = [holder EXCEPT ![L] = 0]
                /\ UNCHANGED queue
           ELSE /\ jobs' = [done EXCEPT ![Head(queue[L])].state = "RUNNING"]
                /\ holder' = [holder EXCEPT ![L] = Head(queue[L])]
                /\ queue' = [queue EXCEPT ![L] = Tail(@)]
        /\ UNCHANGED <<lockDecl, submitRet>>

JobSucceeds(j) ==
    /\ jobs[j].state = "RUNNING"
    /\ Terminate(j, "SUCCESS", "value", "none")
    /\ UNCHANGED abortRet

JobFails(j) ==
    /\ jobs[j].state = "RUNNING"
    /\ Terminate(j, "FAILED", "none", "message")
    /\ UNCHANGED abortRet

CancellableIgnoringMode(j) == JobOptions(jobs[j].method).abortable

\* Cancellation reaches a job only if it is marked abortable and its body
\* executes inline on the event loop.
Cancellable(j) ==
    /\ JobOptions(jobs[j].method).abortable
    /\ JobOptions(jobs[j].method).mode = "loop"

\* Job.abort() as the scheduler answers it: the request cancels a job that
\* is executing and cancellable.
AbortCancels(j) == jobs[j].state = "RUNNING" /\ Cancellable(j)

\* core.job_abort(id): the request is forwarded to the job of that id
\* whatever its state. A cancellable running job ends ABORTED; for any other
\* job (waiting, finished, not cancellable) the request changes nothing.
job_abort(j) ==
    /\ abortRet' = [id |-> j, cancelled |-> AbortCancels(j)]
    /\ IF AbortCancels(j)
       THEN Terminate(j, "ABORTED", "none", "none")
       ELSE UNCHANGED <<jobs, holder, queue, listed, lockDecl, submitRet>>

\* core.get_jobs: the encoded jobs of the job table.
get_jobs == [j \in listed |-> jobs[j]]

LockDecls == [limited : BOOLEAN, size : 1..MaxLockQueueSize]

JobsInit ==
    /\ jobs = <<>>
    /\ holder = [L \in LockKeys |-> 0]
    /\ queue = [L \in LockKeys |-> <<>>]
    /\ listed = {}
    /\ lockDecl \in {[L \in LockKeys |-> IF L = "disk:sda" THEN d ELSE [limited |-> FALSE, size |-> 1]] :
                          d \in {x \in LockDecls : x.size = 1 \/ (x.limited /\ x.size = MaxLockQueueSize)}}
    /\ submitRet = [method |-> "", id |-> 0, created |-> FALSE]
    /\ abortRet = [id |-> 0, cancelled |-> FALSE]

JobsIdle ==
    /\ jobs = <<>>
    /\ holder = [L \in LockKeys |-> 0]
    /\ queue = [L \in LockKeys |-> <<>>]
    /\ listed = {}
    /\ lockDecl = [L \in LockKeys |-> [limited |-> FALSE, size |-> 1]]
    /\ submitRet = [method |-> "", id |-> 0, created |-> FALSE]
    /\ abortRet = [id |-> 0, cancelled |-> FALSE]

JobsFrame == UNCHANGED <<configVars, crudVars, tdbVars, healthVars, cfgUpdVars, bulkVars, lockVars, evVars, throttleVars, tncVars, duVars, dfVars>>

JobsNext ==
    \/ \E m \in JobMethodNames : Submit(m) /\ JobsFrame
    \/ \E j \in DOMAIN jobs : JobSucceeds(j) /\ JobsFrame
    \/ \E j \in DOMAIN jobs : JobFails(j) /\ JobsFrame
    \/ \E j \in DOMAIN jobs : job_abort(j) /\ JobsFrame

\* The scheduler under fair scheduling: the body of every RUNNING job
\* eventually returns or raises.
FairSubmit(m) == Len(jobs) < MaxFairJobs /\ Submit(m)

\* The methods whose jobs take a lock, with wait queues of unlimited length.
LockingMethods == {m \in JobMethodNames : JobOptions(m).lock # NoLock}

UnlimitedQueues == \A L \in LockKeys : ~lockDecl[L].limited

JobEnds(j) == j \in DOMAIN jobs /\ (JobSucceeds(j) \/ JobFails(j)) /\ JobsFrame

FairJobsNext ==
    \/ \E m \in LockingMethods : FairSubmit(m) /\ JobsFrame
    \/ \E j \in DOMAIN jobs : JobSucceeds(j) /\ JobsFrame
    \/ \E j \in DOMAIN jobs : JobFails(j) /\ JobsFrame
    \/ \E j \in DOMAIN jobs : job_abort(j) /\ JobsFrame

EveryRunningJobEnds == \A j \in 1..MaxFairJobs : WF_vars(JobEnds(j))

\* ========================================================================
\* ConfigService.config / _get_or_insert
\* ========================================================================
Callers == 1..NumCallers

NoRow == [id |-> 0, extended |-> FALSE]

\* datastore.insert(datastore, {}): a default row with a generated id.
DatastoreInsertDefault(rs) == Append(rs, [id |-> Len(rs) + 1, extended |-> FALSE])

\* The datastore_extend transform applied by datastore.config.
ConfigExtend(row) == [row EXCEPT !.extended = TRUE]

\* datastore.config raises IndexError when the table has no row.
DatastoreConfigRaises == cfgRows = <<>>
DatastoreConfig == ConfigExtend(cfgRows[1])

GetOrInsertNoLock == TRUE

\* async with get_or_insert_lock: the caller proceeds when the lock is free.
GetOrInsertLockFree == goiLock = 0

\* The second read, under the lock, found no row: the default is inserted.
InsertNeeded == DatastoreConfigRaises

\* config() is called.
ConfigCall(p) ==
    /\ cpc[p] = "idle"
    /\ cpc' = [cpc EXCEPT ![p] = "read1"]
    /\ UNCHANGED <<cfgRows, cfgInserts, cfgInitial, goiLock, cret>>

\* First datastore.config, outside the lock.
GetOrInsertRead1(p) ==
    /\ cpc[p] = "read1"
    /\ IF DatastoreConfigRaises
       THEN /\ cpc' = [cpc EXCEPT ![p] = "acquire"]
            /\ UNCHANGED cret
       ELSE /\ cpc' = [cpc EXCEPT ![p] = "done"]
            /\ cret' = [cret EXCEPT ![p] = [via |-> "read1", row |-> DatastoreConfig]]
    /\ UNCHANGED <<cfgRows, cfgInserts, cfgInitial, goiLock>>

GetOrInsertAcquire(p) ==
    /\ cpc[p] = "acquire"
    /\ GetOrInsertLockFree
    /\ goiLock' = p
    /\ cpc' = [cpc EXCEPT ![p] = "read2"]
    /\ UNCHANGED <<cfgRows, cfgInserts, cfgInitial, cret>>

\* Second datastore.config, under the lock.
GetOrInsertRead2(p) ==
    /\ cpc[p] = "read2"
    /\ IF InsertNeeded
       THEN /\ cpc' = [cpc EXCEPT ![p] = "insert"]
            /\ UNCHANGED <<cret, goiLock>>
       ELSE /\ cpc' = [cpc EXCEPT ![p] = "done"]
            /\ cret' = [cret EXCEPT ![p] = [via |-> "read2", row |-> DatastoreConfig]]
            /\ goiLock' = 0
    /\ UNCHANGED <<cfgRows, cfgInserts, cfgInitial>>

GetOrInsertInsert(p) ==
    /\ cpc[p] = "insert"
    /\ cfgRows' = DatastoreInsertDefault(cfgRows)
    /\ cfgInserts' = cfgInserts + 1
    /\ cpc' = [cpc EXCEPT ![p] = "read3"]
    /\ UNCHANGED <<cfgInitial, goiLock, cret>>

\* Third datastore.config, after the insert; the lock is released on return.
GetOrInsertRead3(p) ==
    /\ cpc[p] = "read3"
    /\ cpc' = [cpc EXCEPT ![p] = "done"]
    /\ cret' = [cret EXCEPT ![p] = [via |-> "read3", row |-> DatastoreConfig]]
    /\ goiLock' = 0
    /\ UNCHANGED <<cfgRows, cfgInserts, cfgInitial>>

ConfigInit ==
    /\ cfgInitial \in {0, 1}
    /\ cfgRows = IF cfgInitial = 0 THEN <<>> ELSE DatastoreInsertDefault(<<>>)
    /\ cfgInserts = 0
    /\ goiLock = 0
    /\ cpc = [p \in Callers |-> "idle"]
    /\ cret = [p \in Callers |-> [via |-> "none", row |-> NoRow]]

ConfigIdle ==
    /\ cfgInitial = 0
    /\ cfgRows = <<>>
    /\ cfgInserts = 0
    /\ goiLock = 0
    /\ cpc = [p \in Callers |-> "idle"]
    /\ cret = [p \in Callers |-> [via |-> "none", row |-> NoRow]]

ConfigFrame == UNCHANGED <<jobVars, crudVars, tdbVars, healthVars, cfgUpdVars, bulkVars, lockVars, evVars, throttleVars, tncVars, duVars, dfVars>>

ConfigNext ==
    \/ \E p \in Callers : ConfigCall(p) /\ ConfigFrame
    \/ \E p \in Callers : GetOrInsertRead1(p) /\ ConfigFrame
    \/ \E p \in Callers : GetOrInsertAcquire(p) /\ ConfigFrame
    \/ \E p \in Callers : GetOrInsertRead2(p) /\ ConfigFrame
    \/ \E p \in Callers : GetOrInsertInsert(p) /\ ConfigFrame
    \/ \E p \in Callers : GetOrInsertRead3(p) /\ ConfigFrame

\* ========================================================================
\* CRUDService
\* ========================================================================
\* Columns of the backing table; "locked" exists only after the extend
\* transform (SharingTaskService.sharing_task_extend).
RawColumns == {"id", "name", "path"}
LockedPaths == {"p2"}
CreateData == [name : {"a", "b"}, path : {"p1", "p2"}]

Row(id, d) == [id |-> id, name |-> d.name, path |-> d.path]

\* The extend transform: adds the computed field "locked".
Extend(r) ==
    [k \in DOMAIN r \cup {"locked"} |-> IF k = "locked" THEN r["path"] \in LockedPaths ELSE r[k]]

MapExtend(rs) == [i \in DOMAIN rs |-> Extend(rs[i])]

\* A query filter [field, op, value]; a list of filters is a conjunction.
Filter(f, o, v) == [field |-> f, op |-> o, value |-> v]

Matches(r, f) ==
    IF f.field \notin DOMAIN r
    THEN f.op = "!="
    ELSE IF f.op = "=" THEN r[f.field] = f.value ELSE r[f.field] # f.value

MatchesAll(r, fs) == \A i \in DOMAIN fs : Matches(r, fs[i])

SelectMatching(rs, fs) ==
    LET Test(r) == MatchesAll(r, fs) IN SelectSeq(rs, Test)

\* The value a query returns: a list, one record (get), a count, or an error.
ResList(l)  == [outcome |-> "ok", shape |-> "list", list |-> l, count |-> 0]
ResOne(r)   == [outcome |-> "ok", shape |-> "record", list |-> <<r>>, count |-> 0]
ResCount(n) == [outcome |-> "ok", shape |-> "count", list |-> <<>>, count |-> n]
ResErr(e)   == [outcome |-> e, shape |-> "error", list |-> <<>>, count |-> 0]

ApplyModeAlwaysList(l, mode) == ResList(l)

\* The count and get options of filter_list / datastore.query.
ApplyMode(l, mode) ==
    CASE mode = "count" -> ResCount(Len(l))
      [] mode = "get"   -> IF l = <<>> THEN ResErr("MatchNotFound") ELSE ResOne(l[1])
      [] OTHER          -> ResList(l)

\* middlewared.utils.filter_list: in-process filtering of records.
filter_list(l, fs, mode) == ApplyMode(SelectMatching(l, fs), mode)

\* datastore.query: filters are evaluated by storage on the raw columns,
\* then the extend option is applied to each selected row.
DatastoreQuery(rs, fs, mode, extend) ==
    IF \E i \in DOMAIN fs : fs[i].field \notin RawColumns
    THEN ResErr("UnknownColumn")
    ELSE LET sel == SelectMatching(rs, fs)
         IN  ApplyMode(IF extend THEN MapExtend(sel) ELSE sel, mode)

StorageFiltersPushedDown(fs, force, extend) == fs

\* The filters CRUDService.query hands to datastore.query.
StorageFilters(fs, force, extend) ==
    IF ~force /\ extend THEN <<>> ELSE fs

\* The get/count option CRUDService.query hands to datastore.query.
StorageMode(mode, force, extend) ==
    IF ~force /\ extend THEN "list" ELSE mode

\* CRUDService.query(filters, options) over table rs.
query(rs, fs, mode, force, extend) ==
    IF ~force /\ extend
    THEN LET result == DatastoreQuery(rs, StorageFilters(fs, force, extend),
                                      StorageMode(mode, force, extend), extend)
         IN  filter_list(result.list, fs, mode)
    ELSE DatastoreQuery(rs, StorageFilters(fs, force, extend),
                        StorageMode(mode, force, extend), extend)

get_instance_unfiltered(rs, id, extend) ==
    LET instance == query(rs, <<>>, "list", TRUE, extend)
    IN  IF instance.list = <<>> THEN ResErr("InstanceNotFound") ELSE ResOne(instance.list[1])

\* CRUDService.get_instance(id): query on the primary key with
\* force_sql_filters defaulting to true.
get_instance(rs, id, extend) ==
    LET instance == query(rs, <<Filter("id", "=", id)>>, "list", TRUE, extend)
    IN  IF instance.list = <<>> THEN ResErr("InstanceNotFound") ELSE ResOne(instance.list[1])

\* ---- dependency guard
RefStores == {"D1", "D2"}
RefTargets == {1}
\* core.get_services: the service owning a datastore ("" when none does).
ServiceOf(D) == IF D = "D1" THEN "svc1" ELSE ""
IgnoreSets == {{}, {"D1"}, {"svc1"}, {"D2"}, {"D1", "D2"}}

get_dependencies_by_datastore_only(id, ignored) ==
    {D \in RefStores : D \notin ignored /\ id \in depRows[D]}

\* CRUDService.get_dependencies: the referencing datastores that hold a row
\* whose foreign key is id, except the ignored datastores and services.
get_dependencies(id, ignored) ==
    {D \in RefStores :
        /\ D \notin ignored
        /\ (ServiceOf(D) # "" => ServiceOf(D) \notin ignored)
        /\ id \in depRows[D]}

\* The names listed by the EBUSY error of check_dependencies.
DependencyNames(deps) == {IF ServiceOf(D) # "" THEN ServiceOf(D) ELSE D : D \in deps}

\* datastore.get_backrefs: the (datastore, foreign key) pairs referencing
\* this store, in the order get_dependencies walks them.
get_backrefs == <<"D1", "D2">>

\* list(dependencies.values()): one entry per referencing datastore.
DependencyList(deps) ==
    LET In(D) == D \in deps
        sel   == SelectSeq(get_backrefs, In)
    IN  [i \in DOMAIN sel |-> [datastore |-> sel[i], service |-> ServiceOf(sel[i])]]

check_dependencies_raises_on_any_reference(id, ignored) ==
    \E D \in RefStores : id \in depRows[D]

\* check_dependencies raises when get_dependencies is not empty.
check_dependencies_raises(id, ignored) == get_dependencies(id, ignored) # {}

ReferencingRowsCascaded(id) == [D \in RefStores |-> depRows[D] \ {id}]

\* The rows of the referencing datastores after this store deleted entry id:
\* nothing in delete or in the guard writes to them.
ReferencingRowsAfterDelete(id) == depRows

RowIds(rs) == {rs[i].id : i \in DOMAIN rs}
DatastoreDelete(rs, id) == LET Keep(r) == r.id # id IN SelectSeq(rs, Keep)
DatastoreUpdate(rs, id, d) == [i \in DOMAIN rs |-> IF rs[i].id = id THEN Row(id, d) ELSE rs[i]]

SendsEventAlways == TRUE

\* The change notification of create/update is sent when events are enabled
\* and the hook's result is a dict holding 'id'.
SendsEvent == svc.event_send /\ svc.rvKind = "record"

\* The change notification of delete is sent when events are enabled.
SendsRemoved == svc.event_send

NoCrudOp ==
    [op |-> "none", arg |-> 0, outcome |-> "none", log |-> <<>>, existed |-> FALSE,
     ignored |-> {}, names |-> {}, data |-> [name |-> "", path |-> ""], ret |-> <<>>]

\* create, update and delete await do_* and then await the post hook; other
\* calls run while a caller is suspended in either.  Two callers give every
\* interleaving of one call with another.
CrudCallers == {1, 2}

\* Callers are interchangeable: a call is started by the first caller that
\* is in none.
Starts(p) == crudCall[p].op = "none" /\ \A q \in 1..(p - 1) : crudCall[q].op # "none"

\* What the callers of create and update pass.
MutationData == {d \in CreateData : d.name = "a"}

\* A caller that is in no create/update/delete.
NoCall == [op |-> "none", arg |-> 0, data |-> [name |-> "", path |-> ""], ignored |-> {}]

\* The call in which caller p is, do_* having returned.
CallRecord(p, outcome, log) ==
    [NoCrudOp EXCEPT !.op = crudCall[p].op, !.arg = crudCall[p].arg, !.data = crudCall[p].data,
                     !.ignored = crudCall[p].ignored, !.existed = crudCall[p].op # "create",
                     !.outcome = outcome, !.log = log]

create_end_notifies_before_hook(p, hookRaises) ==
    /\ crudCall[p].op = "create"
    /\ crudOp' = CallRecord(p, IF hookRaises THEN "hook_raised" ELSE "ok",
                            IF SendsEvent THEN <<"do_create", "ADDED", "post_create">>
                            ELSE <<"do_create", "post_create">>)
    /\ crudCall' = [crudCall EXCEPT ![p] = NoCall]
    /\ UNCHANGED <<svc, rows, nextPk, depRows, qOp>>

\* CRUDService.create(data) up to the return of do_create.
create_begin(p, d, doRaises) ==
    /\ Starts(p)
    /\ nextPk <= MaxPk
    /\ IF doRaises
       THEN /\ crudOp' = [NoCrudOp EXCEPT !.op = "create", !.outcome = "do_raised",
                                          !.log = <<"do_create">>, !.data = d]
            /\ UNCHANGED <<rows, nextPk, crudCall>>
       ELSE /\ rows' = Append(rows, Row(nextPk, d))
            /\ nextPk' = nextPk + 1
            /\ crudCall' = [crudCall EXCEPT ![p] = [NoCall EXCEPT !.op = "create", !.arg = nextPk, !.data = d]]
            /\ crudOp' = [NoCrudOp EXCEPT !.op = "create", !.arg = nextPk, !.data = d,
                                          !.outcome = "in_hook", !.log = <<"do_create">>]
    /\ UNCHANGED <<svc, depRows, qOp>>

\* CRUDService.create from the return of the post_create hook: the ADDED
\* event carries what do_create returned.
create_end(p, hookRaises) ==
    /\ crudCall[p].op = "create"
    /\ crudOp' = CallRecord(p, IF hookRaises THEN "hook_raised" ELSE "ok",
                            IF hookRaises THEN <<"do_create", "post_create">>
                            ELSE IF SendsEvent THEN <<"do_create", "post_create", "ADDED">>
                            ELSE <<"do_create", "post_create">>)
    /\ crudCall' = [crudCall EXCEPT ![p] = NoCall]
    /\ UNCHANGED <<svc, rows, nextPk, depRows, qOp>>

\* CRUDService.update(id, data) up to the return of do_update.
update_begin(p, id, d) ==
    /\ Starts(p)
    /\ IF id \notin RowIds(rows)
       THEN /\ crudOp' = [NoCrudOp EXCEPT !.op = "update", !.arg = id, !.outcome = "do_raised",
                                          !.log = <<"do_update">>, !.data = d]
            /\ UNCHANGED <<rows, crudCall>>
       ELSE /\ rows' = DatastoreUpdate(rows, id, d)
            /\ crudCall' = [crudCall EXCEPT ![p] = [NoCall EXCEPT !.op = "update", !.arg = id, !.data = d]]
            /\ crudOp' = [NoCrudOp EXCEPT !.op = "update", !.arg = id, !.data = d, !.existed = TRUE,
                                          !.outcome = "in_hook", !.log = <<"do_update">>]
    /\ UNCHANGED <<svc, nextPk, depRows, qOp>>

\* CRUDService.update from the return of the post_update hook: the CHANGED
\* event and the returned value are what do_update returned to this caller.
update_end(p, hookRaises) ==
    /\ crudCall[p].op = "update"
    /\ crudOp' = CallRecord(p, IF hookRaises THEN "hook_raised" ELSE "ok",
                            IF hookRaises THEN <<"do_update", "post_update">>
                            ELSE IF SendsEvent THEN <<"do_update", "post_update", "CHANGED">>
                            ELSE <<"do_update", "post_update">>)
    /\ crudCall' = [crudCall EXCEPT ![p] = NoCall]
    /\ UNCHANGED <<svc, rows, nextPk, depRows, qOp>>

\* CRUDService.delete(id) up to the return of do_delete (which may call
\* check_dependencies).
delete_begin(p, id, ignored) ==
    /\ Starts(p)
    /\ IF id \notin RowIds(rows)
       THEN /\ crudOp' = [NoCrudOp EXCEPT !.op = "delete", !.arg = id, !.outcome = "do_raised",
                                          !.log = <<"do_delete">>, !.ignored = ignored]
            /\ UNCHANGED <<rows, crudCall>>
       ELSE IF svc.checksDeps /\ check_dependencies_raises(id, ignored)
       THEN /\ crudOp' = [NoCrudOp EXCEPT !.op = "delete", !.arg = id, !.outcome = "EBUSY",
                                          !.log = <<"do_delete">>, !.ignored = ignored,
                                          !.existed = TRUE,
                                          !.names = DependencyNames(get_dependencies(id, ignored))]
            /\ UNCHANGED <<rows, crudCall>>
       ELSE /\ rows' = DatastoreDelete(rows, id)
            /\ crudCall' = [crudCall EXCEPT ![p] = [NoCall EXCEPT !.op = "delete", !.arg = id, !.ignored = ignored]]
            /\ crudOp' = [NoCrudOp EXCEPT !.op = "delete", !.arg = id, !.ignored = ignored,
                                          !.existed = TRUE, !.outcome = "in_hook",
                                          !.log = <<"do_delete">>]
    /\ depRows' = ReferencingRowsAfterDelete(id)
    /\ UNCHANGED <<svc, nextPk, qOp>>

\* CRUDService.delete from the return of the post_delete hook: the CHANGED
\* and REMOVED events carry the id the caller passed.
delete_end(p, hookRaises) ==
    /\ crudCall[p].op = "delete"
    /\ crudOp' = CallRecord(p, IF hookRaises THEN "hook_raised" ELSE "ok",
                            IF hookRaises THEN <<"do_delete", "post_delete">>
                            ELSE IF SendsRemoved THEN <<"do_delete", "post_delete", "CHANGED", "REMOVED">>
                            ELSE <<"do_delete", "post_delete">>)
    /\ crudCall' = [crudCall EXCEPT ![p] = NoCall]
    /\ UNCHANGED <<svc, rows, nextPk, depRows, qOp>>

\* A caller fetches one instance.
GetInstance(id) ==
    /\ crudOp' = [NoCrudOp EXCEPT !.op = "get_instance", !.arg = id,
                                  !.outcome = get_instance(rows, id, svc.extend).outcome,
                                  !.ret = get_instance(rows, id, svc.extend).list]
    /\ UNCHANGED <<svc, rows, nextPk, depRows, qOp, crudCall>>

\* check_dependencies(id, ignored) called on its own.
check_dependencies(id, ignored) ==
    LET deps == get_dependencies(id, ignored)
    IN  /\ crudOp' = [NoCrudOp EXCEPT
              !.op = "check_dependencies", !.arg = id, !.ignored = ignored,
              !.outcome = IF check_dependencies_raises(id, ignored) THEN "EBUSY" ELSE "ok",
              !.names = IF check_dependencies_raises(id, ignored) THEN DependencyNames(deps) ELSE {},
              !.ret = IF check_dependencies_raises(id, ignored) THEN DependencyList(deps) ELSE <<>>]
        /\ UNCHANGED <<svc, rows, nextPk, depRows, qOp, crudCall>>

\* A caller asks get_dependencies(id, ignored) for the dependents.
GetDependencies(id, ignored) ==
    LET deps == get_dependencies(id, ignored)
    IN  /\ crudOp' = [NoCrudOp EXCEPT
              !.op = "get_dependencies", !.arg = id, !.ignored = ignored, !.outcome = "ok",
              !.names = DependencyNames(deps), !.ret = DependencyList(deps)]
        /\ UNCHANGED <<svc, rows, nextPk, depRows, qOp, crudCall>>

ServiceConfigs ==
    [event_send : BOOLEAN, rvKind : {"record", "id"}, checksDeps : BOOLEAN, extend : BOOLEAN]

NoQueryOp ==
    [op |-> "none", filters |-> <<>>, mode |-> "list", force |-> FALSE,
     dsFilters |-> <<>>, dsMode |-> "list", res |-> ResList(<<>>)]

\* A store that starts empty and that no other store references.
CrudInit ==
    /\ svc \in {c \in ServiceConfigs : c.checksDeps /\ c.extend}
    /\ rows = <<>>
    /\ nextPk = 1
    /\ depRows = [D \in RefStores |-> {}]
    /\ crudOp = NoCrudOp
    /\ qOp = NoQueryOp
    /\ crudCall = [p \in CrudCallers |-> NoCall]

CrudIdle ==
    /\ svc = [event_send |-> TRUE, rvKind |-> "record", checksDeps |-> TRUE, extend |-> TRUE]
    /\ rows = <<>>
    /\ nextPk = 1
    /\ depRows = [D \in RefStores |-> {}]
    /\ crudOp = NoCrudOp
    /\ qOp = NoQueryOp
    /\ crudCall = [p \in CrudCallers |-> NoCall]

CrudFrame == UNCHANGED <<jobVars, configVars, tdbVars, healthVars, cfgUpdVars, bulkVars, lockVars, evVars, throttleVars, tncVars, duVars, dfVars>>

CrudNext ==
    \/ \E p \in CrudCallers, d \in MutationData, dr \in BOOLEAN : create_begin(p, d, dr) /\ CrudFrame
    \/ \E p \in CrudCallers, hr \in BOOLEAN : create_end(p, hr) /\ CrudFrame
    \/ \E p \in CrudCallers, id \in 1..MaxPk, d \in MutationData : update_begin(p, id, d) /\ CrudFrame
    \/ \E p \in CrudCallers, hr \in BOOLEAN : update_end(p, hr) /\ CrudFrame
    \/ \E p \in CrudCallers, id \in 1..MaxPk : delete_begin(p, id, {}) /\ CrudFrame
    \/ \E p \in CrudCallers, hr \in BOOLEAN : delete_end(p, hr) /\ CrudFrame

\* ---- query over a populated table
RECURSIVE SortedIds(_)
SortedIds(S) ==
    IF S = {} THEN <<>>
    ELSE LET m == CHOOSE x \in S : \A y \in S : x <= y
         IN  <<m>> \o SortedIds(S \ {m})

\* The tables the datastore can hold: rows ordered by primary key.
Tables ==
    UNION {{[i \in DOMAIN SortedIds(S) |-> Row(SortedIds(S)[i], f[SortedIds(S)[i]])] :
               f \in [S -> CreateData]} : S \in SUBSET (1..MaxPk)}

QueryFilters ==
    {<<>>,
     <<Filter("locked", "=", TRUE)>>,
     <<Filter("locked", "=", FALSE)>>,
     <<Filter("name", "=", "a")>>,
     <<Filter("id", "=", 1)>>,
     <<Filter("path", "!=", "p1")>>,
     <<Filter("name", "=", "a"), Filter("locked", "=", TRUE)>>}

QueryModes == {"list", "get", "count"}

\* A caller runs query(filters, options).
Query(fs, mode, force) ==
    /\ qOp' = [op |-> "query", filters |-> fs, mode |-> mode, force |-> force,
               dsFilters |-> StorageFilters(fs, force, svc.extend),
               dsMode |-> StorageMode(mode, force, svc.extend),
               res |-> query(rows, fs, mode, force, svc.extend)]
    /\ UNCHANGED <<svc, rows, nextPk, depRows, crudOp, crudCall>>

QueryInit ==
    /\ svc \in {c \in ServiceConfigs : c.event_send /\ c.rvKind = "record" /\ c.checksDeps}
    /\ rows \in Tables
    /\ nextPk = MaxPk + 1
    /\ depRows = [D \in RefStores |-> {}]
    /\ crudOp = NoCrudOp
    /\ qOp = NoQueryOp
    /\ crudCall = [p \in CrudCallers |-> NoCall]

QueryNext ==
    \/ \E fs \in QueryFilters, mode \in QueryModes, force \in BOOLEAN :
          Query(fs, mode, force) /\ CrudFrame
    \/ \E id \in 1..MaxPk : GetInstance(id) /\ CrudFrame

\* ---- the dependency guard over populated stores
\* Tables holding the same data under the first k primary keys.
GuardedTables ==
    {[i \in 1..k |-> Row(i, [name |-> "a", path |-> "p1"])] : k \in 0..MaxPk}

\* What a referencing datastore's foreign keys point at: nothing, the first
\* entry, or every entry.
ReferencedIdSets == {{}, {1}, 1..MaxPk}

\* The references the other stores hold: none, one store referencing the
\* first entry, or both stores referencing every entry.
GuardedReferences ==
    {f \in [RefStores -> ReferencedIdSets] :
        \/ \A D \in RefStores : f[D] = {}
        \/ \E D \in RefStores : f[D] = {1} /\ \A E \in RefStores \ {D} : f[E] = {}
        \/ \A D \in RefStores : f[D] = 1..MaxPk}

DepsInit ==
    /\ svc \in {c \in ServiceConfigs : c.event_send /\ c.rvKind = "record" /\ ~c.extend}
    /\ rows \in GuardedTables
    /\ nextPk = MaxPk + 1
    /\ depRows \in GuardedReferences
    /\ crudOp = NoCrudOp
    /\ qOp = NoQueryOp
    /\ crudCall = [p \in CrudCallers |-> NoCall]

DepsNext ==
    \/ \E id \in 1..MaxPk, ig \in IgnoreSets : check_dependencies(id, ig) /\ CrudFrame
    \/ \E id \in 1..MaxPk, ig \in IgnoreSets : GetDependencies(id, ig) /\ CrudFrame
    \/ \E p \in CrudCallers, id \in 1..MaxPk, ig \in IgnoreSets : delete_begin(p, id, ig) /\ CrudFrame
    \/ \E p \in CrudCallers, hr \in BOOLEAN : delete_end(p, hr) /\ CrudFrame

\* ========================================================================
\* TDBWrapConfigService / TDBWrapCRUDService
\* ========================================================================
time_offset == 30
service_version == [major |-> 0, minor |-> 1]
OtherVersion == [major |-> 0, minor |-> 2]

\* tdb_defaults of the two wrappers: a dict for the config service, a list
\* of entries for the CRUD service.
ConfigDefaults == [a |-> 0]
CrudDefaults == <<[id |-> 1, v |-> 0]>>
tdb_defaults == IF tsvc.kind = "config" THEN ConfigDefaults ELSE CrudDefaults

\* dict.update
DictUpdate(d, u) ==
    [k \in DOMAIN d \cup DOMAIN u |-> IF k \in DOMAIN u THEN u[k] ELSE d[k]]

\* The datastore_extend transform of the wrapped service: adds a computed key.
TdbExtend(d) == DictUpdate(d, [ext |-> 1])
MapTdbExtend(l) == [i \in DOMAIN l |-> TdbExtend(l[i])]

\* The replicated backend: {version, data}; nothing stored means no version
\* stamp and data None.
TdbEmpty == [stamped |-> FALSE, version |-> service_version, has |-> FALSE, data |-> <<>>]
TdbStored(v, d) == [stamped |-> TRUE, version |-> v, has |-> TRUE, data |-> d]

\* `version and self.service_version != version`
VersionMismatch(t) == t.stamped /\ service_version # t.version

\* The backend refuses a stamped write whose version differs from the stored one.
WriteConflict(t, v) == t.stamped /\ t.version # v

db_healthy_on_error(probe) == probe # "BAD"

\* db_healthy(): tdb.health returned "OK"; an exception or any other answer
\* counts as unhealthy.
db_healthy(probe) == probe = "OK"

TruthyOrUnknown(v) == v # "False"

\* Python truth of a health result: True is truthy, False and None are not.
Truthy(v) == v = "True"

HealthAnswers == {"True", "False", "raise"}
ProbeAnswers == {"OK", "BAD", "raise"}

CacheNeverFresh(t) == FALSE

\* `self.last_check + self.time_offset > now`: the cached status is returned.
CacheFresh(t) == last_check + time_offset > t

NoTdbOp ==
    [op |-> "none", clustered |-> FALSE, config_clustered |-> "skip",
     ch |-> "skip", probed |-> FALSE, db |-> "skip",
     tdbRead |-> FALSE, tdbWrite |-> FALSE, stored |-> FALSE, saw |-> "none",
     dsRead |-> FALSE, dsWrite |-> FALSE,
     outcome |-> "none", res |-> ResList(<<>>), rid |-> 0, versions |-> {}, mode |-> "list"]

\* The versions the CallError 'service version mismatch' spells out:
\* TDBWrapConfigService.direct_update formats the node's service_version and
\* the version read from the backend, the TDBWrapCRUDService writes format
\* the node's service_version alone.
ConfigMismatchMessage == {[who |-> "Node", version |-> service_version],
                          [who |-> "cluster", version |-> tdb.version]}
CrudMismatchMessage == {[who |-> "Node", version |-> service_version]}

\* `if not is_clustered:` returns from the local datastore before
\* cluster_healthy() is called: the health cache stays as it is.
LocalBackendOnly == UNCHANGED <<status, last_check>>

\* `not await self.cluster_healthy() and not await self.db_healthy()`: the
\* local-replica probe is awaited only when cluster_healthy() is falsy.
ProbeConsulted(ch) == ~Truthy(ch.value)

ConfigView(data) == IF tsvc.extend THEN TdbExtend(data) ELSE data

\* The data config() goes on with after reading the backend.
ConfigReadData(t) ==
    IF ~t.has \/ VersionMismatch(t) THEN ConfigDefaults ELSE t.data

\* What a backend read handed to the call.
Saw(t) ==
    IF ~t.has THEN "nodata"
    ELSE IF VersionMismatch(t) THEN "mismatch"
    ELSE "data"

ConfigUpdates == {[a |-> 1], [b |-> 1]}

\* ---- TDBWrapCRUDService
EntryValues == {0, 1}
Entry(id, v) == [id |-> id, v |-> v]
NextEntryId(l) == IF l = <<>> THEN 1 ELSE Last(l).id + 1
EntryIds(l) == {l[i].id : i \in DOMAIN l}
ReplaceEntry(l, id, v) == [i \in DOMAIN l |-> IF l[i].id = id THEN Entry(id, v) ELSE l[i]]
RemoveEntry(l, id) == LET Keep(e) == e.id # id IN SelectSeq(l, Keep)

TdbFilters == {<<>>, <<Filter("id", "=", 1)>>}

\* The ids of the rows the local table is given.
LocalRowIds == {1}

QueryViewRaw(l) == l

\* The entries query() filters: extended one by one when a transform is registered.
QueryView(l) == IF tsvc.extend THEN MapTdbExtend(l) ELSE l

\* query() seeds the backend with the defaults when it holds no entry.
SeedsDefaults(t) == tsvc.extend /\ t.data = <<>> /\ CrudDefaults # <<>>

\* insert_defaults: tdb.batch_ops SETs the key of every default entry; the
\* entries stored under other keys stay.
InsertDefaults(l) ==
    LET Other(e) == e.id \notin EntryIds(CrudDefaults) IN CrudDefaults \o SelectSeq(l, Other)

\* tdb.delete receives no version payload and direct_delete handles no
\* ValueError: on a version conflict the backend either raises (the error
\* reaches the caller as it is) or deletes.
TdbDeleteOutcomes(t) == IF VersionMismatch(t) THEN {"ValueError", "ok"} ELSE {"ok"}

\* The backend holds an entry under the id a write addresses.  tdb.update
\* and tdb.delete of an id it does not hold end in the backend's not-found
\* error, which neither method handles: it reaches the caller as it is and
\* nothing is stored.
EntryStored(t, id) == t.has /\ id \in EntryIds(t.data)

\* ---- calls in flight
\* The wrapper's methods take no lock and suspend at every await: while one
\* call waits for the health predicate, the local-replica probe, the backend
\* or the extend transform, another runs.  Two calls give every interleaving
\* of one call with another.  Both run the same steps; the record of what a
\* call consulted on its way is kept for the first, the other keeps its
\* arguments and hands back its result.
TdbCalls == {1, 2}
Observed == CHOOSE p \in TdbCalls : \A q \in TdbCalls : p <= q

\* A call slot: where the call is suspended (pc), the method whose body it
\* is in (fn: config, query, or the clustered branch of a direct_* write),
\* the clock value cluster_healthy() read, the arguments, the data it holds
\* and the record of what it has done so far.
IdleCall ==
    [pc |-> "idle", fn |-> "none", hnow |-> 0, d |-> [a |-> 0], v |-> 0, fs |-> <<>>,
     data |-> tdb_defaults, rec |-> NoTdbOp]

\* The record of the observed call when it has just returned.
tdbOp ==
    IF tdbCall[Observed].pc = "returned" THEN tdbCall[Observed].rec ELSE NoTdbOp

\* What a call keeps of its record while it is in flight, and what it
\* hands back when it returns.
InFlight(p, r) ==
    IF p = Observed THEN r
    ELSE [NoTdbOp EXCEPT !.op = r.op, !.rid = r.rid, !.mode = r.mode]

HandedBack(p, r) ==
    IF p = Observed THEN r
    ELSE [NoTdbOp EXCEPT !.op = r.op, !.rid = r.rid, !.mode = r.mode,
                         !.outcome = r.outcome, !.res = r.res]

\* The value of a call that returned is handed to its caller before
\* anything else runs.
NoneReturned == \A q \in TdbCalls : tdbCall[q].pc # "returned"

\* A call is taken up when its first await, is_clustered(), returns; it has
\* touched nothing before.
TdbStarts(p) ==
    /\ NoneReturned
    /\ tdbCall[p].pc = "idle"

Suspended(p, pc) == NoneReturned /\ tdbCall[p].pc = pc

\* The call of slot p returns (or raises) with record r.
Return(p, r) ==
    tdbCall' = [tdbCall EXCEPT ![p] = [IdleCall EXCEPT !.pc = "returned", !.rec = HandedBack(p, r)]]

\* The call of slot p suspends as c says.
Await(p, c) == tdbCall' = [tdbCall EXCEPT ![p] = [c EXCEPT !.rec = InFlight(p, c.rec)]]

Failed(r, e) == [r EXCEPT !.outcome = e, !.res = ResErr(e)]

\* The default payload of the method the call is in.
DefaultsOf(c) == IF c.fn = "query" THEN ResList(CrudDefaults) ELSE ResOne(ConfigDefaults)

\* What follows `await self.cluster_healthy()` in the method the call is in:
\* a write is refused on a falsy result and goes to the backend otherwise; a
\* read goes to the backend on a truthy result and awaits db_healthy()
\* otherwise.
AfterClusterHealthy(p, c, value, probed) ==
    LET r == [c.rec EXCEPT !.ch = value, !.probed = probed]
    IN  IF c.fn = "write"
        THEN IF ~Truthy(value)
             THEN Return(p, Failed(r, "Unhealthy"))
             ELSE Await(p, [c EXCEPT !.pc = IF tsvc.kind = "config" THEN "read" ELSE "write",
                                     !.hnow = 0, !.rec = r])
        ELSE IF ProbeConsulted([value |-> value])
             THEN Await(p, [c EXCEPT !.pc = "probe", !.hnow = 0, !.rec = r])
             ELSE Await(p, [c EXCEPT !.pc = "read", !.hnow = 0, !.rec = r])

\* cluster_healthy() up to its await: the clock is read; a fresh cache
\* returns the cached status at once, a stale one awaits the health
\* predicate.
EnterClusterHealthy(p, c) ==
    /\ UNCHANGED <<status, last_check>>
    /\ IF CacheFresh(now)
       THEN AfterClusterHealthy(p, c, status, FALSE)
       ELSE Await(p, [c EXCEPT !.pc = "health", !.hnow = now])

\* The call record of a method entered on a clustered topology.
Entered(fn, op) ==
    [IdleCall EXCEPT !.fn = fn, !.rec = [NoTdbOp EXCEPT !.op = op, !.clustered = TRUE]]

\* ---- the steps every method shares
\* The health predicate returns h (or raises): the answer is cached under
\* the clock value read before the await.
cluster_healthy_returns(p, h) ==
    /\ Suspended(p, "health")
    /\ LET st == IF h = "raise" THEN "False" ELSE h
       IN  /\ status' = st
           /\ last_check' = tdbCall[p].hnow
           /\ AfterClusterHealthy(p, tdbCall[p], st, TRUE)
    /\ UNCHANGED <<tsvc, now, tdb, localDs>>

\* tdb.health returns: a healthy local replica lets the read go on, anything
\* else makes it return a copy of tdb_defaults.
db_healthy_returns(p, probe) ==
    /\ Suspended(p, "probe")
    /\ LET c == tdbCall[p]
           r == [c.rec EXCEPT !.db = probe]
       IN  IF ~db_healthy(probe)
           THEN Return(p, [r EXCEPT !.outcome = "ok", !.res = DefaultsOf(c)])
           ELSE Await(p, [c EXCEPT !.pc = "read", !.rec = r])
    /\ UNCHANGED <<tsvc, now, status, last_check, tdb, localDs>>

\* tdb.config / tdb.query returns what the backend holds now, or raises.
tdb_read_returns(p, readFails) ==
    /\ Suspended(p, "read")
    /\ LET c == tdbCall[p]
           r == [c.rec EXCEPT !.tdbRead = TRUE, !.saw = IF readFails THEN "none" ELSE Saw(tdb)]
       IN  IF readFails
           THEN Return(p, Failed(r, "BackendError"))
           ELSE IF c.fn = "write"
           \* direct_update: new = old['data'] or the defaults; new.update(data)
           THEN Await(p, [c EXCEPT !.pc = "write", !.rec = r,
                                   !.data = DictUpdate(IF tdb.has THEN tdb.data ELSE ConfigDefaults, c.d)])
           ELSE IF c.fn = "config"
           THEN IF tsvc.extend
                THEN Await(p, [c EXCEPT !.pc = "extend", !.rec = r, !.data = ConfigReadData(tdb)])
                ELSE Return(p, [r EXCEPT !.outcome = "ok", !.res = ResOne(ConfigReadData(tdb))])
           \* query
           ELSE IF ~tdb.has \/ VersionMismatch(tdb)
           THEN Return(p, [r EXCEPT !.outcome = "ok", !.res = ResList(CrudDefaults)])
           ELSE IF SeedsDefaults(tdb)
           THEN Await(p, [c EXCEPT !.pc = "seed", !.rec = r])
           ELSE IF tsvc.extend /\ tdb.data # <<>>
           THEN Await(p, [c EXCEPT !.pc = "extend", !.rec = r, !.data = tdb.data])
           ELSE Return(p, [r EXCEPT !.outcome = filter_list(QueryView(tdb.data), c.fs, r.mode).outcome,
                                    !.res = filter_list(QueryView(tdb.data), c.fs, r.mode)])
    /\ UNCHANGED <<tsvc, now, status, last_check, tdb, localDs>>

\* The datastore_extend transform returns: the method returns what it read,
\* extended.
extend_returns(p) ==
    /\ Suspended(p, "extend")
    /\ LET c == tdbCall[p]
       IN  IF c.fn = "query"
           THEN Return(p, [c.rec EXCEPT !.outcome = filter_list(QueryView(c.data), c.fs, c.rec.mode).outcome,
                                        !.res = filter_list(QueryView(c.data), c.fs, c.rec.mode)])
           ELSE Return(p, [c.rec EXCEPT !.outcome = "ok", !.res = ResOne(ConfigView(c.data))])
    /\ UNCHANGED <<tsvc, now, status, last_check, tdb, localDs>>

\* insert_defaults returns: tdb.batch_ops has stored the defaults, and
\* query() filters a copy of tdb_defaults.
insert_defaults_returns(p) ==
    /\ Suspended(p, "seed")
    /\ tdb' = [tdb EXCEPT !.data = InsertDefaults(tdb.data)]
    /\ LET c == tdbCall[p]
       IN  Return(p, [c.rec EXCEPT !.tdbWrite = TRUE, !.stored = TRUE,
                                   !.outcome = filter_list(CrudDefaults, c.fs, c.rec.mode).outcome,
                                   !.res = filter_list(CrudDefaults, c.fs, c.rec.mode)])
    /\ UNCHANGED <<tsvc, now, status, last_check, localDs>>

\* tdb.config_update / tdb.create / tdb.update / tdb.delete returns or
\* raises: a stamped write is refused on a version conflict.
tdb_write_returns(p, backend) ==
    /\ Suspended(p, "write")
    /\ LET c   == tdbCall[p]
           r   == [c.rec EXCEPT !.tdbWrite = TRUE]
           old == IF tdb.has THEN tdb.data ELSE <<>>
       IN  IF tsvc.kind = "config"
           THEN /\ backend = "ok"
                /\ IF WriteConflict(tdb, service_version)
                   THEN /\ Return(p, [Failed(r, "VersionMismatch") EXCEPT !.versions = ConfigMismatchMessage])
                        /\ UNCHANGED tdb
                   ELSE /\ tdb' = TdbStored(service_version, c.data)
                        /\ Await(p, [c EXCEPT !.pc = "reread", !.rec = [r EXCEPT !.stored = TRUE]])
           ELSE IF r.op = "direct_delete"
           THEN /\ backend \in IF EntryStored(tdb, r.rid)
                               THEN TdbDeleteOutcomes(tdb)
                               ELSE (TdbDeleteOutcomes(tdb) \ {"ok"}) \cup {"NotFound"}
                /\ IF backend # "ok"
                   THEN /\ Return(p, Failed(r, backend))
                        /\ UNCHANGED tdb
                   ELSE /\ tdb' = [tdb EXCEPT !.data = RemoveEntry(tdb.data, r.rid)]
                        /\ Return(p, [r EXCEPT !.stored = TRUE, !.outcome = "ok"])
           ELSE /\ backend = "ok"
                /\ IF WriteConflict(tdb, service_version)
                   THEN /\ Return(p, [Failed(r, "VersionMismatch") EXCEPT !.versions = CrudMismatchMessage])
                        /\ UNCHANGED tdb
                   ELSE IF r.op = "direct_create"
                   THEN /\ tdb' = TdbStored(service_version, Append(old, Entry(NextEntryId(old), c.v)))
                        /\ Return(p, [r EXCEPT !.stored = TRUE, !.outcome = "ok", !.rid = NextEntryId(old)])
                   ELSE IF ~EntryStored(tdb, r.rid)
                   THEN /\ Return(p, Failed(r, "NotFound"))
                        /\ UNCHANGED tdb
                   ELSE /\ tdb' = TdbStored(service_version, ReplaceEntry(tdb.data, r.rid, c.v))
                        /\ Return(p, [r EXCEPT !.stored = TRUE, !.outcome = "ok"])
    /\ UNCHANGED <<tsvc, now, status, last_check, localDs>>

\* TDBWrapConfigService.direct_update reads the payload again after its
\* write and returns the data the backend holds then.
tdb_reread_returns(p, readFails) ==
    /\ Suspended(p, "reread")
    /\ LET c == tdbCall[p]
       IN  IF readFails
           THEN Return(p, Failed(c.rec, "BackendError"))
           ELSE IF tsvc.extend
           THEN Await(p, [c EXCEPT !.pc = "extend", !.data = tdb.data])
           ELSE Return(p, [c.rec EXCEPT !.outcome = "ok", !.res = ResOne(tdb.data)])
    /\ UNCHANGED <<tsvc, now, status, last_check, tdb, localDs>>

\* The caller receives what the call returned.
Returns(p) ==
    /\ tdbCall[p].pc = "returned"
    /\ tdbCall' = [tdbCall EXCEPT ![p] = IdleCall]
    /\ UNCHANGED <<tsvc, now, status, last_check, tdb, localDs>>

\* ---- the methods, from the return of is_clustered()
\* TDBWrapConfigService.config()
TDBWrapConfigService_config(p, clustered) ==
    /\ tsvc.kind = "config"
    /\ TdbStarts(p)
    /\ IF ~clustered
       THEN /\ Return(p, [NoTdbOp EXCEPT !.op = "config", !.dsRead = TRUE, !.outcome = "ok",
                                         !.res = ResOne(ConfigView(localDs))])
            /\ LocalBackendOnly
       ELSE EnterClusterHealthy(p, Entered("config", "config"))
    /\ UNCHANGED <<tsvc, now, tdb, localDs>>

\* TDBWrapConfigService.direct_update(data): on a local topology the
\* datastore is updated and config() is awaited for the value to return.
TDBWrapConfigService_direct_update(p, d, clustered) ==
    /\ tsvc.kind = "config"
    /\ TdbStarts(p)
    /\ IF ~clustered
       THEN /\ localDs' = DictUpdate(localDs, d)
            /\ Await(p, [IdleCall EXCEPT !.pc = "config", !.d = d,
                                         !.rec = [NoTdbOp EXCEPT !.op = "direct_update", !.dsWrite = TRUE]])
            /\ LocalBackendOnly
       ELSE /\ EnterClusterHealthy(p, [Entered("write", "direct_update") EXCEPT !.d = d])
            /\ UNCHANGED localDs
    /\ UNCHANGED <<tsvc, now, tdb>>

\* `return await self.config()` of direct_update: config() asks
\* is_clustered() again and serves the backend that answer selects.
direct_update_config(p, clustered) ==
    /\ Suspended(p, "config")
    /\ LET c == tdbCall[p]
       IN  IF ~clustered
           THEN /\ Return(p, [c.rec EXCEPT !.config_clustered = "False", !.dsRead = TRUE,
                                           !.outcome = "ok", !.res = ResOne(ConfigView(localDs))])
                /\ LocalBackendOnly
           ELSE EnterClusterHealthy(p, [c EXCEPT !.fn = "config", !.rec.config_clustered = "True"])
    /\ UNCHANGED <<tsvc, now, tdb, localDs>>

\* CRUDService.query with a transform registered: datastore.query returned
\* the extended rows unfiltered, and filter_list runs on them in a thread;
\* the call returns what the table held when it was read.
filter_list_returns(p) ==
    /\ Suspended(p, "filter")
    /\ LET c  == tdbCall[p]
           fl == filter_list(QueryView(c.data), c.fs, c.rec.mode)
       IN  Return(p, [c.rec EXCEPT !.outcome = fl.outcome, !.res = fl])
    /\ UNCHANGED <<tsvc, now, status, last_check, tdb, localDs>>

\* TDBWrapCRUDService.query(filters, options): on a local topology
\* CRUDService.query serves it, in one datastore.query when no transform is
\* registered.
TDBWrapCRUDService_query(p, fs, mode, clustered) ==
    /\ tsvc.kind = "crud"
    /\ TdbStarts(p)
    /\ IF ~clustered
       THEN /\ IF tsvc.extend
               THEN Await(p, [IdleCall EXCEPT !.pc = "filter", !.fn = "query", !.fs = fs, !.data = localDs,
                                              !.rec = [NoTdbOp EXCEPT !.op = "query", !.dsRead = TRUE,
                                                                      !.mode = mode]])
               ELSE Return(p, [NoTdbOp EXCEPT !.op = "query", !.dsRead = TRUE, !.mode = mode,
                                              !.outcome = filter_list(QueryView(localDs), fs, mode).outcome,
                                              !.res = filter_list(QueryView(localDs), fs, mode)])
            /\ LocalBackendOnly
       ELSE EnterClusterHealthy(p, [Entered("query", "query") EXCEPT !.fs = fs, !.rec.mode = mode])
    /\ UNCHANGED <<tsvc, now, tdb, localDs>>

\* A create is submitted while the backend holds fewer than MaxEntries
\* entries; one that is in flight completes whatever was stored meanwhile.
HasRoom(t) == NextEntryId(IF t.has THEN t.data ELSE <<>>) <= MaxEntries

\* TDBWrapCRUDService.direct_create(data)
TDBWrapCRUDService_direct_create(p, v, clustered) ==
    /\ tsvc.kind = "crud"
    /\ TdbStarts(p)
    /\ IF ~clustered
       THEN /\ NextEntryId(localDs) \in LocalRowIds
            /\ localDs' = Append(localDs, Entry(NextEntryId(localDs), v))
            /\ Return(p, [NoTdbOp EXCEPT !.op = "direct_create", !.dsWrite = TRUE, !.outcome = "ok",
                                         !.rid = NextEntryId(localDs)])
            /\ LocalBackendOnly
       ELSE /\ HasRoom(tdb)
            /\ EnterClusterHealthy(p, [Entered("write", "direct_create") EXCEPT !.v = v])
            /\ UNCHANGED localDs
    /\ UNCHANGED <<tsvc, now, tdb>>

\* TDBWrapCRUDService.direct_update(id, data)
TDBWrapCRUDService_direct_update(p, id, v, clustered) ==
    /\ tsvc.kind = "crud"
    /\ TdbStarts(p)
    /\ IF ~clustered
       THEN /\ id \in EntryIds(localDs)
            /\ localDs' = ReplaceEntry(localDs, id, v)
            /\ Return(p, [NoTdbOp EXCEPT !.op = "direct_update", !.dsWrite = TRUE, !.outcome = "ok",
                                         !.rid = id])
            /\ LocalBackendOnly
       ELSE /\ EnterClusterHealthy(p, [Entered("write", "direct_update") EXCEPT !.v = v, !.rec.rid = id])
            /\ UNCHANGED localDs
    /\ UNCHANGED <<tsvc, now, tdb>>

\* TDBWrapCRUDService.direct_delete(id)
TDBWrapCRUDService_direct_delete(p, id, clustered) ==
    /\ tsvc.kind = "crud"
    /\ TdbStarts(p)
    /\ IF ~clustered
       THEN /\ id \in EntryIds(localDs)
            /\ localDs' = RemoveEntry(localDs, id)
            /\ Return(p, [NoTdbOp EXCEPT !.op = "direct_delete", !.dsWrite = TRUE, !.outcome = "ok",
                                         !.rid = id])
            /\ LocalBackendOnly
       ELSE /\ EnterClusterHealthy(p, [Entered("write", "direct_delete") EXCEPT !.rec.rid = id])
            /\ UNCHANGED localDs
    /\ UNCHANGED <<tsvc, now, tdb>>

\* time.monotonic() advances.
Tick ==
    /\ NoneReturned
    /\ now + TickStep <= MaxTdbNow
    /\ now' = now + TickStep
    /\ UNCHANGED <<tsvc, status, last_check, tdb, localDs, tdbCall>>

TdbInit ==
    /\ tsvc \in [kind : {"config", "crud"}, extend : BOOLEAN]
    /\ now \in {0, time_offset}
    /\ status = "None"
    /\ last_check = 0
    /\ tdb \in IF tsvc.kind = "config"
               THEN {TdbEmpty, TdbStored(service_version, [a |-> 1]), TdbStored(OtherVersion, [a |-> 1])}
               ELSE {TdbEmpty, TdbStored(service_version, <<>>),
                     TdbStored(service_version, <<Entry(1, 1)>>), TdbStored(OtherVersion, <<Entry(1, 1)>>)}
    /\ localDs = IF tsvc.kind = "config" THEN [a |-> 1] ELSE <<>>
    /\ tdbCall = [p \in TdbCalls |-> IdleCall]

TdbFrame == UNCHANGED <<jobVars, configVars, crudVars, healthVars, cfgUpdVars, bulkVars, lockVars, evVars, throttleVars, tncVars, duVars, dfVars>>

\* The steps of a call after it was taken up.
TdbSteps ==
    \/ \E p \in TdbCalls, h \in HealthAnswers : cluster_healthy_returns(p, h) /\ TdbFrame
    \/ \E p \in TdbCalls, pr \in ProbeAnswers : db_healthy_returns(p, pr) /\ TdbFrame
    \/ \E p \in TdbCalls, rf \in BOOLEAN : tdb_read_returns(p, rf) /\ TdbFrame
    \/ \E p \in TdbCalls : extend_returns(p) /\ TdbFrame
    \/ \E p \in TdbCalls : insert_defaults_returns(p) /\ TdbFrame
    \/ \E p \in TdbCalls : filter_list_returns(p) /\ TdbFrame
    \/ \E p \in TdbCalls, b \in {"ValueError", "NotFound", "ok"} : tdb_write_returns(p, b) /\ TdbFrame
    \/ \E p \in TdbCalls, rf \in BOOLEAN : tdb_reread_returns(p, rf) /\ TdbFrame
    \/ \E p \in TdbCalls, c \in BOOLEAN : direct_update_config(p, c) /\ TdbFrame
    \/ \E p \in TdbCalls : Returns(p) /\ TdbFrame

TdbNext ==
    \/ \E p \in TdbCalls, c \in BOOLEAN : TDBWrapConfigService_config(p, c) /\ TdbFrame
    \/ \E p \in TdbCalls, d \in ConfigUpdates, c \in BOOLEAN :
          TDBWrapConfigService_direct_update(p, d, c) /\ TdbFrame
    \/ \E p \in TdbCalls, c \in BOOLEAN :
          TDBWrapCRUDService_query(p, <<>>, "list", c) /\ TdbFrame
    \/ \E p \in TdbCalls, v \in EntryValues, c \in BOOLEAN :
          TDBWrapCRUDService_direct_create(p, v, c) /\ TdbFrame
    \/ \E p \in TdbCalls, id \in 1..MaxEntries, v \in EntryValues, c \in BOOLEAN :
          TDBWrapCRUDService_direct_update(p, id, v, c) /\ TdbFrame
    \/ \E p \in TdbCalls, id \in 1..MaxEntries, c \in BOOLEAN :
          TDBWrapCRUDService_direct_delete(p, id, c) /\ TdbFrame
    \/ TdbSteps
    \/ Tick /\ TdbFrame


\* ========================================================================
\* ConfigService.update
\* ========================================================================
Settings == [a : 0..MaxSetting, b : 0..MaxSetting]
SettingUpdates == {[a |-> v] : v \in 0..MaxSetting} \cup {[b |-> v] : v \in 0..MaxSetting}

NoCfgOp ==
    [op |-> "none", outcome |-> "none", log |-> <<>>, prev |-> [a |-> 0, b |-> 0],
     hookCalled |-> FALSE, hookArg |-> [a |-> 0, b |-> 0], data |-> [a |-> 0],
     rv |-> [a |-> 0, b |-> 0], stored |-> FALSE]

\* update awaits do_update and then awaits the post_update hook, and
\* do_update awaits the datastore and config(); other calls run while a
\* caller is suspended in any of them.  Two callers give every interleaving
\* of one call with another.
CfgCallers == {1, 2}

\* A caller that is in no update call.
NoCfgCall == [pc |-> "idle", rv |-> [a |-> 0, b |-> 0]]

\* Callers are interchangeable: a call is started by the first caller that
\* is in none.
CfgStarts(p) == cfgCall[p].pc = "idle" /\ \A q \in CfgCallers : q < p => cfgCall[q].pc # "idle"

StoredAfterHookRolledBack(row, hookRaises) == IF hookRaises THEN [a |-> 0, b |-> 0] ELSE row

\* What the config row holds once do_update has stored: the old settings
\* with the submitted keys replaced.
StoredAfterUpdate(old, d) == DictUpdate(old, d)

\* What the config row holds once the post_update hook has returned or
\* raised: what it held before; update undoes nothing.
StoredAfterHook(row, hookRaises) == row

\* update(data) up to the first await inside do_update that touches the
\* row: do_update raises before it stores anything, or datastore.update
\* stores the submitted settings and do_update goes on to config().  The
\* record of a call notes whether its datastore.update has stored.
ConfigService_update_begin(p, d, doRaises) ==
    /\ CfgStarts(p)
    /\ IF doRaises
       THEN /\ cfgOp' = [NoCfgOp EXCEPT !.op = "update", !.outcome = "do_raised",
                                        !.log = <<"do_update">>]
            /\ UNCHANGED <<cfgData, cfgCall>>
       ELSE /\ cfgData' = StoredAfterUpdate(cfgData, d)
            /\ cfgCall' = [cfgCall EXCEPT ![p] = [NoCfgCall EXCEPT !.pc = "stored"]]
            /\ cfgOp' = [NoCfgOp EXCEPT !.op = "update", !.outcome = "in_do_update",
                                        !.log = <<"do_update">>, !.prev = cfgData, !.data = d,
                                        !.stored = TRUE]

\* `return await self.config()` of direct_update.  config() returns the row
\* as it is now: do_update returns it as rv, and update calls the
\* post_update hook with rv.  Or config() raises: do_update ends in that
\* error after datastore.update has stored, and update leaves before the
\* hook.
ConfigService_update_hook(p, configRaises) ==
    /\ cfgCall[p].pc = "stored"
    /\ IF configRaises
       THEN /\ cfgCall' = [cfgCall EXCEPT ![p] = NoCfgCall]
            /\ cfgOp' = [NoCfgOp EXCEPT !.op = "update", !.outcome = "do_raised",
                                        !.log = <<"do_update">>, !.stored = TRUE]
       ELSE /\ cfgCall' = [cfgCall EXCEPT ![p] = [@ EXCEPT !.pc = "hook", !.rv = cfgData]]
            /\ cfgOp' = [NoCfgOp EXCEPT !.op = "update", !.outcome = "in_hook",
                                        !.log = <<"do_update", "post_update">>, !.stored = TRUE,
                                        !.hookCalled = TRUE, !.hookArg = cfgData, !.rv = cfgData]
    /\ UNCHANGED cfgData

\* The post_update hook returns or raises: update returns rv or ends in
\* the hook's error.
ConfigService_update_end(p, hookRaises) ==
    /\ cfgCall[p].pc = "hook"
    /\ cfgData' = StoredAfterHook(cfgData, hookRaises)
    /\ cfgCall' = [cfgCall EXCEPT ![p] = NoCfgCall]
    /\ cfgOp' = [NoCfgOp EXCEPT !.op = "update",
                                !.outcome = IF hookRaises THEN "hook_raised" ELSE "ok",
                                !.log = <<"do_update", "post_update">>, !.stored = TRUE,
                                !.hookCalled = TRUE, !.hookArg = cfgCall[p].rv, !.rv = cfgCall[p].rv]

CfgUpdInit ==
    /\ cfgData = [a |-> 0, b |-> 0]
    /\ cfgOp = NoCfgOp
    /\ cfgCall = [p \in CfgCallers |-> NoCfgCall]

CfgUpdIdle ==
    /\ cfgData = [a |-> 0, b |-> 0]
    /\ cfgOp = NoCfgOp
    /\ cfgCall = [p \in CfgCallers |-> NoCfgCall]


\* ========================================================================
\* cluster_healthy() with its suspension point
\* ========================================================================
HealthCallers == 1..NumHealthCallers

\* cluster_healthy() up to its await: the clock is read and compared; a stale
\* cache makes the caller invoke the health predicate and suspend.
cluster_healthy_begin(p) ==
    /\ hpc[p] = "idle"
    /\ hnow' = [hnow EXCEPT ![p] = now]
    /\ IF CacheFresh(now)
       THEN /\ hret' = [hret EXCEPT ![p] = [value |-> status, probed |-> FALSE, raised |-> FALSE]]
            /\ UNCHANGED <<hpc, probeLog>>
       ELSE /\ hpc' = [hpc EXCEPT ![p] = "await"]
            /\ probeLog' = Append(probeLog, [at |-> now, last |-> last_check])
            /\ UNCHANGED hret
    /\ UNCHANGED <<now, status, last_check>>

\* An exception of the predicate that reaches the caller.
PredicateResultPropagates(h) == h

\* try: status = await call(cluster_healthy_fn); except Exception: status = False.
PredicateResult(h) == IF h = "raise" THEN "False" ELSE h

\* The predicate answered (or raised, which counts as False): the answer and
\* the clock value read at the start of the call are stored.
cluster_healthy_end(p, h) ==
    /\ hpc[p] = "await"
    /\ status' = PredicateResult(h)
    /\ last_check' = hnow[p]
    /\ hret' = [hret EXCEPT ![p] = [value |-> PredicateResult(h), probed |-> TRUE, raised |-> h = "raise"]]
    /\ hpc' = [hpc EXCEPT ![p] = "idle"]
    /\ UNCHANGED <<now, hnow, probeLog>>

\* time.monotonic() advances while callers are suspended or idle.
HealthTick ==
    /\ now + HealthTickStep <= MaxNow
    /\ now' = now + HealthTickStep
    /\ UNCHANGED <<status, last_check, healthVars>>

HealthIdle ==
    /\ hpc = [p \in HealthCallers |-> "idle"]
    /\ hnow = [p \in HealthCallers |-> 0]
    /\ hret = [p \in HealthCallers |-> [value |-> "None", probed |-> FALSE, raised |-> FALSE]]
    /\ probeLog = <<>>

HealthFrame ==
    UNCHANGED <<jobVars, configVars, crudVars, tsvc, tdb, localDs, tdbCall, cfgUpdVars, bulkVars, lockVars, evVars, throttleVars, tncVars, duVars, dfVars>>

HealthNext ==
    \/ \E p \in HealthCallers : cluster_healthy_begin(p) /\ HealthFrame
    \/ \E p \in HealthCallers, h \in HealthAnswers : cluster_healthy_end(p, h) /\ HealthFrame
    \/ HealthTick /\ HealthFrame

CfgUpdFrame == UNCHANGED <<jobVars, configVars, crudVars, tdbVars, healthVars, bulkVars, lockVars, evVars, throttleVars, tncVars, duVars, dfVars>>

CfgUpdNext ==
    \/ \E p \in CfgCallers, d \in SettingUpdates, doRaises \in BOOLEAN :
          ConfigService_update_begin(p, d, doRaises) /\ CfgUpdFrame
    \/ \E p \in CfgCallers, configRaises \in BOOLEAN :
          ConfigService_update_hook(p, configRaises) /\ CfgUpdFrame
    \/ \E p \in CfgCallers, hookRaises \in BOOLEAN : ConfigService_update_end(p, hookRaises) /\ CfgUpdFrame

\* ========================================================================
\* CoreService.bulk
\* ========================================================================
\* An element of params decides what the called method does with it: it
\* returns a value, raises, or returns a job that succeeds or fails.
ParamKinds == {"value", "raises", "job", "job_error"}
ReturnsJob(p) == p \in {"job", "job_error"}

RECURSIVE SeqsUpTo(_, _)
SeqsUpTo(S, n) ==
    IF n = 0 THEN {<<>>}
    ELSE SeqsUpTo(S, n - 1) \cup {Append(q, x) : q \in {r \in SeqsUpTo(S, n - 1) : Len(r) = n - 1}, x \in S}

\* The status bulk records for one call: result, error and, for a method
\* that returned a job, that job's id.
CallStatus(p, i) ==
    CASE p = "value"     -> [result |-> "rv",     error |-> "None",    job_id |-> 0]
      [] p = "raises"    -> [result |-> "None",   error |-> "exc",     job_id |-> 0]
      [] p = "job"       -> [result |-> "job_rv", error |-> "None",    job_id |-> i]
      [] p = "job_error" -> [result |-> "None",   error |-> "job_exc", job_id |-> i]

PrependStatus(statuses, st) == <<st>> \o statuses

\* statuses.append(status)
AppendStatus(statuses, st) == Append(statuses, st)

BulkAdvancePropagatesError ==
    IF bParams[bIdx] \in {"raises", "job_error"}
    THEN bPc' = "raised" /\ UNCHANGED bIdx
    ELSE IF bIdx = Len(bParams)
    THEN bPc' = "done" /\ UNCHANGED bIdx
    ELSE bPc' = "loop" /\ bIdx' = bIdx + 1

\* The end of one loop iteration, reached after the try block and after
\* its except clause alike: the next element, or the return.
BulkAdvance ==
    IF bIdx = Len(bParams)
    THEN bPc' = "done" /\ UNCHANGED bIdx
    ELSE bPc' = "loop" /\ bIdx' = bIdx + 1

\* The state of the core.bulk job itself: SUCCESS once the method has
\* returned its statuses, FAILED once an exception has left it.
BulkJobState ==
    CASE bPc = "done"   -> "SUCCESS"
      [] bPc = "raised" -> "FAILED"
      [] OTHER          -> "RUNNING"

\* `if not params: return statuses`, else the loop is entered.
bulk_enter ==
    /\ bPc = "start"
    /\ IF bParams = <<>>
       THEN bPc' = "done" /\ UNCHANGED bIdx
       ELSE bPc' = "loop" /\ bIdx' = 1
    /\ UNCHANGED <<bParams, bDescr, bStatuses, bLog>>

\* One iteration up to `await self.middleware.call(method, *p)`: the
\* progress description is formatted (outside the try block), progress is
\* set, and bulk is suspended in the call of the method with the element.
bulk_call ==
    /\ bPc = "loop"
    /\ IF bDescr = "bad"
       THEN /\ bPc' = "raised"
            /\ UNCHANGED bLog
       ELSE /\ bPc' = "call"
            /\ bLog' = Append(bLog, [ev |-> "progress", i |-> bIdx])
    /\ UNCHANGED <<bParams, bDescr, bIdx, bStatuses>>

\* The called method returns a value, returns a job or raises: a job is
\* waited for, anything else gives the status of the element at once.
bulk_call_returns ==
    /\ bPc = "call"
    /\ bLog' = Append(bLog, [ev |-> "call", i |-> bIdx])
    /\ IF ReturnsJob(bParams[bIdx])
       THEN /\ bPc' = "wait"
            /\ UNCHANGED <<bIdx, bStatuses>>
       ELSE /\ bStatuses' = AppendStatus(bStatuses, CallStatus(bParams[bIdx], bIdx))
            /\ BulkAdvance
    /\ UNCHANGED <<bParams, bDescr>>

\* `status["result"] = await msg.wait()` for a method that returned a job.
bulk_wait ==
    /\ bPc = "wait"
    /\ bLog' = Append(bLog, [ev |-> "wait", i |-> bIdx])
    /\ bStatuses' = AppendStatus(bStatuses, CallStatus(bParams[bIdx], bIdx))
    /\ BulkAdvance
    /\ UNCHANGED <<bParams, bDescr>>

BulkInit ==
    /\ bParams \in SeqsUpTo(ParamKinds, MaxParams)
    /\ bDescr \in {"none", "ok", "bad"}
    /\ bPc = "start"
    /\ bIdx = 0
    /\ bStatuses = <<>>
    /\ bLog = <<>>

BulkIdle ==
    /\ bParams = <<>>
    /\ bDescr = "none"
    /\ bPc = "start"
    /\ bIdx = 0
    /\ bStatuses = <<>>
    /\ bLog = <<>>

BulkFrame == UNCHANGED <<jobVars, configVars, crudVars, tdbVars, healthVars, cfgUpdVars, lockVars, evVars, throttleVars, tncVars, duVars, dfVars>>

BulkNext ==
    \/ bulk_enter /\ BulkFrame
    \/ bulk_call /\ BulkFrame
    \/ bulk_call_returns /\ BulkFrame
    \/ bulk_wait /\ BulkFrame

\* ========================================================================
\* lock(lock_str) decorator
\* ========================================================================
Executions == 1..NumExecutions
LockStrs == {"k1", "k2"}
FnKinds == {"coroutine", "blocking"}

\* asyncio.iscoroutinefunction(fn)
IsCoroutineFunction(p) == lkFns[p].kind = "coroutine"

\* f_lock: LOCKS[lock_str] for a coroutine function, THREADING_LOCKS[lock_str]
\* for any other function.
f_lock(p) ==
    IF IsCoroutineFunction(p) THEN LOCKS[lkFns[p].key] ELSE THREADING_LOCKS[lkFns[p].key]

LockNeverHeld(p) == TRUE

\* The lock the wrapper of execution p uses is not held.
LockNotHeld(p) == f_lock(p) = 0

\* l_fn is called: the execution reaches `with f_lock`.
lock_call(p) ==
    /\ lkPc[p] = "idle"
    /\ lkPc' = [lkPc EXCEPT ![p] = "acquiring"]
    /\ UNCHANGED <<lkFns, LOCKS, THREADING_LOCKS>>

\* `async with f_lock:` / `with f_lock:` acquires the lock once it is free
\* and the wrapped function starts to execute.
lock_enter(p) ==
    /\ lkPc[p] = "acquiring"
    /\ LockNotHeld(p)
    /\ lkPc' = [lkPc EXCEPT ![p] = "executing"]
    /\ IF IsCoroutineFunction(p)
       THEN LOCKS' = [LOCKS EXCEPT ![lkFns[p].key] = p] /\ UNCHANGED THREADING_LOCKS
       ELSE THREADING_LOCKS' = [THREADING_LOCKS EXCEPT ![lkFns[p].key] = p] /\ UNCHANGED LOCKS
    /\ UNCHANGED lkFns

\* The wrapped function returns or raises: the with block releases the lock.
lock_exit(p) ==
    /\ lkPc[p] = "executing"
    /\ lkPc' = [lkPc EXCEPT ![p] = "idle"]
    /\ IF IsCoroutineFunction(p)
       THEN LOCKS' = [LOCKS EXCEPT ![lkFns[p].key] = 0] /\ UNCHANGED THREADING_LOCKS
       ELSE THREADING_LOCKS' = [THREADING_LOCKS EXCEPT ![lkFns[p].key] = 0] /\ UNCHANGED LOCKS
    /\ UNCHANGED lkFns

LockInit ==
    /\ lkFns \in [Executions -> [kind : FnKinds, key : LockStrs]]
    /\ lkPc = [p \in Executions |-> "idle"]
    /\ LOCKS = [k \in LockStrs |-> 0]
    /\ THREADING_LOCKS = [k \in LockStrs |-> 0]

LockIdle ==
    /\ lkFns = [p \in Executions |-> [kind |-> "coroutine", key |-> "k1"]]
    /\ lkPc = [p \in Executions |-> "idle"]
    /\ LOCKS = [k \in LockStrs |-> 0]
    /\ THREADING_LOCKS = [k \in LockStrs |-> 0]

LockFrame == UNCHANGED <<jobVars, configVars, crudVars, tdbVars, healthVars, cfgUpdVars, bulkVars, evVars, throttleVars, tncVars, duVars, dfVars>>

LockNext ==
    \/ \E p \in Executions : lock_call(p) /\ LockFrame
    \/ \E p \in Executions : lock_enter(p) /\ LockFrame
    \/ \E p \in Executions : lock_exit(p) /\ LockFrame

\* ========================================================================
\* Job notifications (core.get_jobs ADDED / CHANGED events)
\* ========================================================================
ProgressValues == {50, 100}

\* The data argument of core.job_update: with or without a progress entry.
NoProgress == [given |-> FALSE, percent |-> 0]
ProgressUpdates == {NoProgress} \cup [given : {TRUE}, percent : ProgressValues]

JobSendsEventsAlways(job) == TRUE

\* A job's notifications are sent unless the job is transient.
JobSendsEvents(job) == ~JobOptions(job.method).transient

\* The notifications of one scheduler step: ADDED for a job entering the
\* job table, CHANGED for a job whose state, result or error changed.
StepEvents ==
    {[kind |-> "ADDED", id |-> j] :
        j \in {x \in DOMAIN jobs' \ DOMAIN jobs : JobSendsEvents(jobs'[x])}}
    \cup
    {[kind |-> "CHANGED", id |-> j] :
        j \in {x \in DOMAIN jobs : jobs'[x] # jobs[x] /\ JobSendsEvents(jobs'[x])}}

Notify == jobEvents' = jobEvents \cup StepEvents

NotifiedSubmit(m) ==
    /\ Len(jobs) < MaxNotifiedJobs
    /\ Submit(m)
    /\ Notify
    /\ UNCHANGED jobProgress

NotifiedSucceeds(j) == JobSucceeds(j) /\ Notify /\ UNCHANGED jobProgress
NotifiedFails(j) == JobFails(j) /\ Notify /\ UNCHANGED jobProgress
NotifiedAbort(j) == job_abort(j) /\ Notify /\ UNCHANGED jobProgress

\* job.set_progress(percent): the percent is stored as given and the change
\* is notified.
set_progress(j, pct) ==
    /\ jobProgress' = [jobProgress EXCEPT ![j] = pct]
    /\ jobEvents' = jobEvents \cup
          (IF JobSendsEvents(jobs[j]) THEN {[kind |-> "CHANGED", id |-> j]} ELSE {})
    /\ UNCHANGED jobVars

\* The body of a running job reports its progress.
BodyReportsProgress(j, pct) ==
    /\ jobs[j].state = "RUNNING"
    /\ set_progress(j, pct)

\* core.job_update(id, data): the progress entry of data, when there is one,
\* is forwarded to the job of that id, whatever the job's state and whatever
\* the percent it reported before.
job_update(j, data) ==
    IF data.given
    THEN set_progress(j, data.percent)
    ELSE UNCHANGED <<jobVars, evVars>>

JobEventsInit ==
    /\ jobEvents = {}
    /\ jobProgress = [j \in 1..MaxJobs |-> 0]

JobEventsIdle ==
    /\ jobEvents = {}
    /\ jobProgress = [j \in 1..MaxJobs |-> 0]

JobEventsFrame == UNCHANGED <<configVars, crudVars, tdbVars, healthVars, cfgUpdVars, bulkVars, lockVars, throttleVars, tncVars, duVars, dfVars>>

JobEventsNext ==
    \/ \E m \in JobMethodNames : NotifiedSubmit(m) /\ JobEventsFrame
    \/ \E j \in DOMAIN jobs : NotifiedSucceeds(j) /\ JobEventsFrame
    \/ \E j \in DOMAIN jobs : NotifiedFails(j) /\ JobEventsFrame
    \/ \E j \in DOMAIN jobs : NotifiedAbort(j) /\ JobEventsFrame
    \/ \E j \in DOMAIN jobs, pct \in ProgressValues : BodyReportsProgress(j, pct) /\ JobEventsFrame
    \/ \E j \in DOMAIN jobs, data \in ProgressUpdates : job_update(j, data) /\ JobEventsFrame

\* ========================================================================
\* throttle(seconds, condition, exc_class, max_waiters)
\*
\* The asynchronous wrapper runs between two awaits without interruption and
\* the synchronous wrapper takes last_calls_lock around the same two pieces
\* of code, so in both _should_throttle and each pass of the retry loop are
\* single steps.  A caller that was refused sleeps and tries again.
\* ========================================================================
Throttled == 1..NumThrottled

ConditionKeys == {"a", "b"}

ThrottleKeys == {"None"} \cup ConditionKeys

\* _register_call with an inclusive comparison.
register_call_inclusive(key) ==
    IF thNow - last_calls[key] >= thDeco.seconds
    THEN [ok |-> TRUE, last_calls |-> [last_calls EXCEPT ![key] = thNow]]
    ELSE [ok |-> FALSE, last_calls |-> last_calls]

\* _register_call: records the call when more than throttle_period has
\* passed since the last recorded one.
register_call(key) ==
    IF thNow - last_calls[key] > thDeco.seconds
    THEN [ok |-> TRUE, last_calls |-> [last_calls EXCEPT ![key] = thNow]]
    ELSE [ok |-> FALSE, last_calls |-> last_calls]

\* _should_throttle: the condition's answer (allowed, key) decides the key;
\* without a condition every call shares the key None.
should_throttle(allowed, ckey) ==
    IF thDeco.condition /\ allowed
    THEN [throttle |-> FALSE, key |-> "None", registered |-> FALSE, last_calls |-> last_calls]
    ELSE LET key == IF thDeco.condition THEN ckey ELSE "None"
             r   == register_call(key)
         IN [throttle |-> ~r.ok, key |-> key, registered |-> r.ok, last_calls |-> r.last_calls]

\* A wrapper that turns callers away once max_waiters of them are waiting.
ThrottledOutcomeRejectsWhenFull(waiters) ==
    IF waiters >= thDeco.max_waiters THEN "raised" ELSE "waiting"

\* What happens to a caller that must be throttled: it enters the loop.
ThrottledOutcome(waiters) == "waiting"

Waiting == {p \in Throttled : thPc[p] = "waiting"}

\* wrapper / async_wrapper up to the first sleep or the call of fn.
throttle_call(p, allowed, ckey) ==
    /\ thPc[p] = "idle"
    /\ LET st == should_throttle(allowed, ckey) IN
        /\ last_calls' = st.last_calls
        /\ thKey' = [thKey EXCEPT ![p] = st.key]
        /\ thPc' = [thPc EXCEPT ![p] =
                IF st.throttle THEN ThrottledOutcome(Cardinality(Waiting)) ELSE "running"]
        /\ thLog' = IF st.registered
                    THEN [thLog EXCEPT ![st.key] = Append(@, thNow)] ELSE thLog
    /\ UNCHANGED <<thDeco, thNow>>

\* One pass of the retry loop: register and leave, or sleep.
throttle_retry(p) ==
    /\ thPc[p] = "waiting"
    /\ LET r == register_call(thKey[p]) IN
        /\ last_calls' = r.last_calls
        /\ thPc' = [thPc EXCEPT ![p] = IF r.ok THEN "running" ELSE "waiting"]
        /\ thLog' = IF r.ok THEN [thLog EXCEPT ![thKey[p]] = Append(@, thNow)] ELSE thLog
    /\ UNCHANGED <<thDeco, thNow, thKey>>

\* fn returns.
throttle_return(p) ==
    /\ thPc[p] = "running"
    /\ thPc' = [thPc EXCEPT ![p] = "idle"]
    /\ thKey' = [thKey EXCEPT ![p] = "None"]
    /\ UNCHANGED <<thDeco, thNow, last_calls, thLog>>

ThrottleTick ==
    /\ thNow < MaxThrottleNow
    /\ thNow' = thNow + 1
    /\ UNCHANGED <<thDeco, last_calls, thPc, thKey, thLog>>

ThrottleInit ==
    /\ thDeco \in [seconds : 0..MaxPeriod, condition : BOOLEAN, max_waiters : {MaxWaiters}]
    /\ thNow \in {0, MaxPeriod + 1}
    /\ last_calls = [k \in ThrottleKeys |-> 0]
    /\ thPc = [p \in Throttled |-> "idle"]
    /\ thKey = [p \in Throttled |-> "None"]
    /\ thLog = [k \in ThrottleKeys |-> <<>>]

ThrottleIdle ==
    /\ thDeco = [seconds |-> 0, condition |-> FALSE, max_waiters |-> 1]
    /\ thNow = 0
    /\ last_calls = [k \in ThrottleKeys |-> 0]
    /\ thPc = [p \in Throttled |-> "idle"]
    /\ thKey = [p \in Throttled |-> "None"]
    /\ thLog = [k \in ThrottleKeys |-> <<>>]

ThrottleFrame == UNCHANGED <<jobVars, configVars, crudVars, tdbVars, healthVars, cfgUpdVars, bulkVars, lockVars, evVars, tncVars, duVars, dfVars>>

ThrottleNext ==
    \/ \E p \in Throttled, allowed \in BOOLEAN, ckey \in ConditionKeys :
            throttle_call(p, allowed, ckey) /\ ThrottleFrame
    \/ \E p \in Throttled : throttle_retry(p) /\ ThrottleFrame
    \/ \E p \in Throttled : throttle_return(p) /\ ThrottleFrame
    \/ ThrottleTick /\ ThrottleFrame

\* ========================================================================
\* TNCHostnameService.sync_interface_ips, one await at a time.  Several
\* calls may be in flight: each ipaddress.change event starts one.
\* ========================================================================
\* Two calls give every interleaving of one sync with another, and a sync
\* that begins after another one failed.
Syncs == {1, 2}

\* The interface IPs a call may compute; the order of enumeration varies.
IpLists == {<<"i1">>, <<"i1", "i2">>, <<"i2", "i1">>}

DirectIps == {<<>>, <<"d1">>}

\* The outcome of tn_connect.hostname.register_update_ips: a response with
\* or without an error, or a CallError.
RegisterResponses == {"ok", "error", "raise"}

Range(seq) == {seq[i] : i \in DOMAIN seq}

NoEntry == [has |-> FALSE, ips |-> <<>>]

\* What a call holds: the interface IPs it computed, the cache entry it saw,
\* the response of its registration and the list that registration sent.
\* `after` records what had happened when the call was made: the sets of
\* interface IPs of the other syncs that had ended in a failed registration.
NoLocal == [ips |-> <<>>, seen |-> NoEntry, resp |-> "none", sent |-> <<>>, after |-> {}]

\* The syncs other than p that have ended in a failed registration (an
\* error in the response, or a CallError).
FailedSyncs(p) ==
    {r \in Syncs \ {p} : tncPc[r] = "done" /\ tncLocal[r].resp \in {"error", "raise"}}

\* skip_syncing decided by comparing the lists themselves.
skip_syncing_same_list(cached, interfaces_ips) ==
    cached.has /\ cached.ips = interfaces_ips

\* skip_syncing: False on KeyError, else set(cached_ips) == set(interfaces_ips).
skip_syncing(cached, interfaces_ips) ==
    cached.has /\ Range(cached.ips) = Range(interfaces_ips)

\* A sync that stores the IPs in the cache whatever the response says.
CachePutAlways(resp) == resp # "raise"

\* `if response['error']: ... else: cache.put`.
CachePut(resp) == resp = "ok"

\* register_update_ips(ips=None): the direct ips followed by interfaces_ips,
\* both as tn_connect.config_internal holds them.
RegisteredIps == tncIps \o tncDsIps

\* sync_interface_ips() is called: it awaits tn_connect.config and holds
\* nothing yet.
sync_begin(p) ==
    /\ tncPc[p] \in {"idle", "done"}
    /\ tncPc' = [tncPc EXCEPT ![p] = "config"]
    /\ tncLocal' = [tncLocal EXCEPT ![p] =
            [NoLocal EXCEPT !.after = {Range(tncLocal[r].ips) : r \in FailedSyncs(p)}]]
    /\ tncCalls' = [tncCalls EXCEPT ![p] = <<>>]
    /\ UNCHANGED <<tncIps, tncDsIps, tncCache>>

\* tn_connect.config answers; the call asks for the interface IPs
\* (get_all_interface_ips or get_interface_ips).
sync_config_returns(p) ==
    /\ tncPc[p] = "config"
    /\ tncPc' = [tncPc EXCEPT ![p] = "get_ips"]
    /\ UNCHANGED <<tncIps, tncDsIps, tncCache, tncLocal, tncCalls>>

\* The interface IPs are answered; the call asks the cache.
sync_get_ips_returns(p, ips) ==
    /\ tncPc[p] = "get_ips"
    /\ tncLocal' = [tncLocal EXCEPT ![p].ips = ips]
    /\ tncPc' = [tncPc EXCEPT ![p] = "cache_get"]
    /\ UNCHANGED <<tncIps, tncDsIps, tncCache, tncCalls>>

\* cache.get and the decision to skip.
sync_cache_get(p) ==
    /\ tncPc[p] = "cache_get"
    /\ tncLocal' = [tncLocal EXCEPT ![p].seen = tncCache]
    /\ tncPc' = [tncPc EXCEPT ![p] =
            IF skip_syncing(tncCache, tncLocal[p].ips) THEN "done" ELSE "update"]
    /\ UNCHANGED <<tncIps, tncDsIps, tncCache, tncCalls>>

\* datastore.update of interfaces_ips.
sync_datastore_update(p) ==
    /\ tncPc[p] = "update"
    /\ tncDsIps' = tncLocal[p].ips
    /\ tncCalls' = [tncCalls EXCEPT ![p] = Append(@, "datastore.update")]
    /\ tncPc' = [tncPc EXCEPT ![p] = "register"]
    /\ UNCHANGED <<tncIps, tncCache, tncLocal>>

\* register_update_ips: tn_connect.config_internal answers and the request
\* is sent with the ips read from it.
sync_register_send(p) ==
    /\ tncPc[p] = "register"
    /\ tncLocal' = [tncLocal EXCEPT ![p].sent = RegisteredIps]
    /\ tncCalls' = [tncCalls EXCEPT ![p] = Append(@, "register_update_ips")]
    /\ tncPc' = [tncPc EXCEPT ![p] = "response"]
    /\ UNCHANGED <<tncIps, tncDsIps, tncCache>>

\* The registration is answered, with or without an error, or raises.
sync_register(p, resp) ==
    /\ tncPc[p] = "response"
    /\ tncLocal' = [tncLocal EXCEPT ![p].resp = resp]
    /\ tncPc' = [tncPc EXCEPT ![p] = IF CachePut(resp) THEN "cache_put" ELSE "done"]
    /\ UNCHANGED <<tncIps, tncDsIps, tncCache, tncCalls>>

\* cache.put of the computed interface IPs.
sync_cache_put(p) ==
    /\ tncPc[p] = "cache_put"
    /\ tncCache' = [has |-> TRUE, ips |-> tncLocal[p].ips]
    /\ tncCalls' = [tncCalls EXCEPT ![p] = Append(@, "cache.put")]
    /\ tncPc' = [tncPc EXCEPT ![p] = "done"]
    /\ UNCHANGED <<tncIps, tncDsIps, tncLocal>>

\* The cache entry expires after its hour.
CacheExpires ==
    /\ tncCache.has
    /\ tncCache' = NoEntry
    /\ UNCHANGED <<tncIps, tncDsIps, tncPc, tncLocal, tncCalls>>

TncInit ==
    /\ tncIps \in DirectIps
    /\ tncDsIps = <<>>
    /\ tncCache = NoEntry
    /\ tncPc = [p \in Syncs |-> "idle"]
    /\ tncLocal = [p \in Syncs |-> NoLocal]
    /\ tncCalls = [p \in Syncs |-> <<>>]

TncIdle ==
    /\ tncIps = <<>>
    /\ tncDsIps = <<>>
    /\ tncCache = NoEntry
    /\ tncPc = [p \in Syncs |-> "idle"]
    /\ tncLocal = [p \in Syncs |-> NoLocal]
    /\ tncCalls = [p \in Syncs |-> <<>>]

TncFrame == UNCHANGED <<jobVars, configVars, crudVars, tdbVars, healthVars, cfgUpdVars, bulkVars, lockVars, evVars, throttleVars, duVars, dfVars>>

TncNext ==
    \/ \E p \in Syncs : sync_begin(p) /\ TncFrame
    \/ \E p \in Syncs : sync_config_returns(p) /\ TncFrame
    \/ \E p \in Syncs, ips \in IpLists : sync_get_ips_returns(p, ips) /\ TncFrame
    \/ \E p \in Syncs : sync_cache_get(p) /\ TncFrame
    \/ \E p \in Syncs : sync_datastore_update(p) /\ TncFrame
    \/ \E p \in Syncs : sync_register_send(p) /\ TncFrame
    \/ \E p \in Syncs, resp \in RegisterResponses : sync_register(p, resp) /\ TncFrame
    \/ \E p \in Syncs : sync_cache_put(p) /\ TncFrame
    \/ CacheExpires /\ TncFrame

\* ========================================================================
\* TDBWrapConfigService.direct_update on a clustered store, one await at a
\* time.  The method takes no lock, so calls interleave at every await.
\* ========================================================================
Updaters == 1..NumUpdaters

NoUpdate == [outcome |-> "none", data |-> ConfigDefaults]

\* `if not await self.cluster_healthy(): raise CallError(...)`: a falsy
\* result ends the call, a truthy one lets it go on to tdb.config.
HealthGate(p, value) ==
    /\ duPc' = [duPc EXCEPT ![p] = IF Truthy(value) THEN "read" ELSE "done"]
    /\ duRet' = [duRet EXCEPT ![p] =
            IF Truthy(value) THEN NoUpdate ELSE [NoUpdate EXCEPT !.outcome = "Unhealthy"]]

\* is_clustered() answered true and cluster_healthy() is entered: a fresh
\* cache gates the write with the cached status, a stale one suspends the
\* call in the health predicate.
direct_update_begin(p, d) ==
    /\ duPc[p] \in {"idle", "done"}
    /\ IF CacheFresh(now)
       THEN HealthGate(p, status)
       ELSE /\ duPc' = [duPc EXCEPT ![p] = "health"]
            /\ duRet' = [duRet EXCEPT ![p] = NoUpdate]
    /\ duArg' = [duArg EXCEPT ![p] = d]
    /\ duOld' = [duOld EXCEPT ![p] = ConfigDefaults]
    /\ UNCHANGED tdbVars

\* The health predicate answers h (or raises): the answer is cached under
\* the clock value the call read before the await, which is the value the
\* clock still has (it does not advance here), and gates the write.
direct_update_health(p, h) ==
    /\ duPc[p] = "health"
    /\ status' = PredicateResult(h)
    /\ last_check' = now
    /\ HealthGate(p, PredicateResult(h))
    /\ UNCHANGED <<tsvc, now, tdb, localDs, tdbCall, duArg, duOld>>

\* old = tdb.config(...); new = old['data'], or a copy of the defaults.
direct_update_read(p) ==
    /\ duPc[p] = "read"
    /\ duOld' = [duOld EXCEPT ![p] = IF tdb.has THEN tdb.data ELSE ConfigDefaults]
    /\ duPc' = [duPc EXCEPT ![p] = "write"]
    /\ UNCHANGED <<tdbVars, duArg, duRet>>

\* new.update(data); tdb.config_update stores the whole of new.
direct_update_write(p) ==
    /\ duPc[p] = "write"
    /\ IF WriteConflict(tdb, service_version)
       THEN /\ duPc' = [duPc EXCEPT ![p] = "done"]
            /\ duRet' = [duRet EXCEPT ![p] = [NoUpdate EXCEPT !.outcome = "VersionMismatch"]]
            /\ UNCHANGED tdb
       ELSE /\ tdb' = TdbStored(service_version, DictUpdate(duOld[p], duArg[p]))
            /\ duPc' = [duPc EXCEPT ![p] = "reread"]
            /\ UNCHANGED duRet
    /\ UNCHANGED <<tsvc, now, status, last_check, localDs, tdbCall, duArg, duOld>>

\* The stored payload is read again and returned.
direct_update_return(p) ==
    /\ duPc[p] = "reread"
    /\ duRet' = [duRet EXCEPT ![p] = [outcome |-> "ok", data |-> ConfigView(tdb.data)]]
    /\ duPc' = [duPc EXCEPT ![p] = "done"]
    /\ UNCHANGED <<tdbVars, duArg, duOld>>

StoredConfigs == {TdbEmpty, TdbStored(service_version, [a |-> 0, b |-> 0]),
                  TdbStored(OtherVersion, [a |-> 0, b |-> 0])}

DuIdle ==
    /\ duPc = [p \in Updaters |-> "idle"]
    /\ duArg = [p \in Updaters |-> [a |-> 1]]
    /\ duOld = [p \in Updaters |-> ConfigDefaults]
    /\ duRet = [p \in Updaters |-> NoUpdate]

DuInit ==
    /\ tsvc = [kind |-> "config", extend |-> FALSE]
    /\ now = time_offset
    /\ status = "None"
    /\ last_check = 0
    /\ tdb \in StoredConfigs
    /\ localDs = [a |-> 1]
    /\ tdbCall = [p \in TdbCalls |-> IdleCall]
    /\ DuIdle

DuFrame == UNCHANGED <<jobVars, configVars, crudVars, healthVars, cfgUpdVars, bulkVars, lockVars, evVars, throttleVars, tncVars, dfVars>>

DuNext ==
    \/ \E p \in Updaters, d \in ConfigUpdates : direct_update_begin(p, d) /\ DuFrame
    \/ \E p \in Updaters, h \in HealthAnswers : direct_update_health(p, h) /\ DuFrame
    \/ \E p \in Updaters : direct_update_read(p) /\ DuFrame
    \/ \E p \in Updaters : direct_update_write(p) /\ DuFrame
    \/ \E p \in Updaters : direct_update_return(p) /\ DuFrame

\* ========================================================================
\* tdb_defaults and the objects made from it.  An object is its value and
\* whether it is the very object the class attribute holds (shared) or a
\* separate one: mutating a shared object mutates tdb_defaults.
\* ========================================================================
\* The tdb_defaults a wrapper class may declare: a dict for a config
\* service, a list of entries for a CRUD service.
DeclaredDefaults(kind) ==
    IF kind = "config"
    THEN {ConfigDefaults, [a |-> 0, b |-> 0]}
    ELSE {CrudDefaults, <<[id |-> 1, v |-> 0], [id |-> 2, v |-> 1]>>}

\* The defaults handed out as they are, without a copy.
deepcopy_shares(value) == [has |-> TRUE, shared |-> TRUE, value |-> value]

\* copy.deepcopy(self.tdb_defaults): a separate object with the same value.
deepcopy(value) == [has |-> TRUE, shared |-> FALSE, value |-> value]

NoObject(value) == [has |-> FALSE, shared |-> FALSE, value |-> value]

\* tdb_defaults after the object obj was given the value v in place.
DefaultsAfterMutation(obj, v) == IF obj.shared THEN v ELSE dfDefaults

\* Why a read hands out the defaults: both probes unhealthy, no data
\* stored, or a stored version other than service_version.
DegradedReasons == {"unhealthy", "no data", "version mismatch"}

\* What a caller may do to a list it was given.
ListMutations(l) == {<<>>} \cup {ReplaceEntry(l, l[i].id, 1 - l[i].v) : i \in DOMAIN l}

\* val = entry.copy(); val.pop("id"): the entry itself keeps its id.
WithoutId(entry) == [k \in DOMAIN entry \ {"id"} |-> entry[k]]

\* The ops insert_defaults sends to tdb.batch_ops.
InsertDefaultsPayload(defaults) ==
    [i \in DOMAIN defaults |-> [action |-> "SET", key |-> defaults[i].id, val |-> WithoutId(defaults[i])]]

Readers == 1..NumReaders

\* config() / query() returning the default payload to caller p.
degraded_read(p, why) ==
    /\ dfRet' = [dfRet EXCEPT ![p] = deepcopy(dfDefaults)]
    /\ dfOp' = [op |-> "read", why |-> why, by |-> p]
    /\ UNCHANGED <<dfSvc, dfDefaults, dfStore>>

\* Caller p changes the object it received.
caller_mutates(p, v) ==
    /\ dfRet[p].has
    /\ dfRet[p].value # v
    /\ dfRet' = [dfRet EXCEPT ![p].value = v]
    /\ dfDefaults' = DefaultsAfterMutation(dfRet[p], v)
    /\ dfOp' = [op |-> "mutate", why |-> "caller", by |-> p]
    /\ UNCHANGED <<dfSvc, dfStore>>

\* TDBWrapConfigService.direct_update(d) when tdb.config returned no data:
\* new is a copy of the defaults, d is merged into it and it is stored.
direct_update_on_defaults(d) ==
    /\ dfSvc.kind = "config"
    /\ LET new == deepcopy(dfDefaults) IN
        /\ dfDefaults' = DefaultsAfterMutation(new, DictUpdate(new.value, d))
        /\ dfStore' = [has |-> TRUE, value |-> DictUpdate(new.value, d)]
    /\ dfOp' = [op |-> "direct_update", why |-> "no data", by |-> 0]
    /\ UNCHANGED <<dfSvc, dfRet>>

\* TDBWrapCRUDService.query with extend registered and no entry stored:
\* insert_defaults, then a copy of the defaults goes through filter_list.
query_inserts_defaults(p) ==
    /\ dfSvc.kind = "crud"
    /\ dfStore' = [has |-> TRUE, value |-> InsertDefaultsPayload(dfDefaults)]
    /\ dfRet' = [dfRet EXCEPT ![p] = deepcopy(dfDefaults)]
    /\ dfOp' = [op |-> "query", why |-> "insert_defaults", by |-> p]
    /\ UNCHANGED <<dfSvc, dfDefaults>>

DfInit ==
    /\ \E kind \in {"config", "crud"} : \E d \in DeclaredDefaults(kind) :
            dfSvc = [kind |-> kind, tdb_defaults |-> d]
    /\ dfDefaults = dfSvc.tdb_defaults
    /\ dfRet = [p \in Readers |-> NoObject(dfSvc.tdb_defaults)]
    /\ dfStore = [has |-> FALSE, value |-> dfSvc.tdb_defaults]
    /\ dfOp = [op |-> "none", why |-> "none", by |-> 0]

DfIdle ==
    /\ dfSvc = [kind |-> "config", tdb_defaults |-> ConfigDefaults]
    /\ dfDefaults = ConfigDefaults
    /\ dfRet = [p \in Readers |-> NoObject(ConfigDefaults)]
    /\ dfStore = [has |-> FALSE, value |-> ConfigDefaults]
    /\ dfOp = [op |-> "none", why |-> "none", by |-> 0]

DfFrame == UNCHANGED <<jobVars, configVars, crudVars, tdbVars, healthVars, cfgUpdVars, bulkVars, lockVars, evVars, throttleVars, tncVars, duVars>>

DfNext ==
    \/ \E p \in Readers, why \in DegradedReasons : degraded_read(p, why) /\ DfFrame
    \/ dfSvc.kind = "config" /\ (\E p \in Readers, d \in ConfigUpdates :
            caller_mutates(p, DictUpdate(dfRet[p].value, d))) /\ DfFrame
    \/ dfSvc.kind = "crud" /\ (\E p \in Readers : \E v \in ListMutations(dfRet[p].value) :
            caller_mutates(p, v)) /\ DfFrame
    \/ \E d \in ConfigUpdates : direct_update_on_defaults(d) /\ DfFrame
    \/ \E p \in Readers : query_inserts_defaults(p) /\ DfFrame

\* ========================================================================
\* Specifications
\* ========================================================================
TdbIdle ==
    /\ tsvc = [kind |-> "config", extend |-> FALSE]
    /\ now = 0
    /\ status = "None"
    /\ last_check = 0
    /\ tdb = TdbEmpty
    /\ localDs = [a |-> 1]
    /\ tdbCall = [p \in TdbCalls |-> IdleCall]

InitJobs   == JobsInit /\ ConfigIdle /\ CrudIdle /\ TdbIdle /\ HealthIdle /\ CfgUpdIdle /\ BulkIdle /\ LockIdle /\ JobEventsIdle /\ ThrottleIdle /\ TncIdle /\ DuIdle /\ DfIdle
InitConfig == JobsIdle /\ ConfigInit /\ CrudIdle /\ TdbIdle /\ HealthIdle /\ CfgUpdIdle /\ BulkIdle /\ LockIdle /\ JobEventsIdle /\ ThrottleIdle /\ TncIdle /\ DuIdle /\ DfIdle
InitCrud   == JobsIdle /\ ConfigIdle /\ CrudInit /\ TdbIdle /\ HealthIdle /\ CfgUpdIdle /\ BulkIdle /\ LockIdle /\ JobEventsIdle /\ ThrottleIdle /\ TncIdle /\ DuIdle /\ DfIdle
InitQuery  == JobsIdle /\ ConfigIdle /\ QueryInit /\ TdbIdle /\ HealthIdle /\ CfgUpdIdle /\ BulkIdle /\ LockIdle /\ JobEventsIdle /\ ThrottleIdle /\ TncIdle /\ DuIdle /\ DfIdle
InitTdb    == JobsIdle /\ ConfigIdle /\ CrudIdle /\ TdbInit /\ HealthIdle /\ CfgUpdIdle /\ BulkIdle /\ LockIdle /\ JobEventsIdle /\ ThrottleIdle /\ TncIdle /\ DuIdle /\ DfIdle
InitHealth == JobsIdle /\ ConfigIdle /\ CrudIdle /\ TdbIdle /\ HealthIdle /\ CfgUpdIdle /\ BulkIdle /\ LockIdle /\ JobEventsIdle /\ ThrottleIdle /\ TncIdle /\ DuIdle /\ DfIdle
InitCfgUpd == JobsIdle /\ ConfigIdle /\ CrudIdle /\ TdbIdle /\ HealthIdle /\ CfgUpdInit /\ BulkIdle /\ LockIdle /\ JobEventsIdle /\ ThrottleIdle /\ TncIdle /\ DuIdle /\ DfIdle
InitBulk   == JobsIdle /\ ConfigIdle /\ CrudIdle /\ TdbIdle /\ HealthIdle /\ CfgUpdIdle /\ BulkInit /\ LockIdle /\ JobEventsIdle /\ ThrottleIdle /\ TncIdle /\ DuIdle /\ DfIdle
InitLock   == JobsIdle /\ ConfigIdle /\ CrudIdle /\ TdbIdle /\ HealthIdle /\ CfgUpdIdle /\ BulkIdle /\ LockInit /\ JobEventsIdle /\ ThrottleIdle /\ TncIdle /\ DuIdle /\ DfIdle
InitJobEvents == JobsInit /\ UnlimitedQueues /\ ConfigIdle /\ CrudIdle /\ TdbIdle /\ HealthIdle /\ CfgUpdIdle /\ BulkIdle /\ LockIdle /\ JobEventsInit /\ ThrottleIdle /\ TncIdle /\ DuIdle /\ DfIdle
InitDeps   == JobsIdle /\ ConfigIdle /\ DepsInit /\ TdbIdle /\ HealthIdle /\ CfgUpdIdle /\ BulkIdle /\ LockIdle /\ JobEventsIdle /\ ThrottleIdle /\ TncIdle /\ DuIdle /\ DfIdle
InitThrottle == JobsIdle /\ ConfigIdle /\ CrudIdle /\ TdbIdle /\ HealthIdle /\ CfgUpdIdle /\ BulkIdle /\ LockIdle /\ JobEventsIdle /\ ThrottleInit /\ TncIdle /\ DuIdle /\ DfIdle
InitTnc    == JobsIdle /\ ConfigIdle /\ CrudIdle /\ TdbIdle /\ HealthIdle /\ CfgUpdIdle /\ BulkIdle /\ LockIdle /\ JobEventsIdle /\ ThrottleIdle /\ TncInit /\ DuIdle /\ DfIdle
InitJobsFair == InitJobs /\ UnlimitedQueues /\ DuIdle /\ DfIdle
InitDirectUpdate == JobsIdle /\ ConfigIdle /\ CrudIdle /\ HealthIdle /\ CfgUpdIdle /\ BulkIdle /\ LockIdle /\ JobEventsIdle /\ ThrottleIdle /\ TncIdle /\ DuInit /\ DfIdle
InitDefaults == JobsIdle /\ ConfigIdle /\ CrudIdle /\ TdbIdle /\ HealthIdle /\ CfgUpdIdle /\ BulkIdle /\ LockIdle /\ JobEventsIdle /\ ThrottleIdle /\ TncIdle /\ DuIdle /\ DfInit

SpecJobs   == InitJobs /\ [][JobsNext]_vars
SpecJobsFair == InitJobsFair /\ [][FairJobsNext]_vars /\ EveryRunningJobEnds
SpecConfig == InitConfig /\ [][ConfigNext]_vars
SpecCrud   == InitCrud /\ [][CrudNext]_vars
SpecQuery  == InitQuery /\ [][QueryNext]_vars
SpecTdb    == InitTdb /\ [][TdbNext]_vars
SpecHealth == InitHealth /\ [][HealthNext]_vars
SpecCfgUpd == InitCfgUpd /\ [][CfgUpdNext]_vars
SpecBulk   == InitBulk /\ [][BulkNext]_vars
SpecLock   == InitLock /\ [][LockNext]_vars
SpecDefaults == InitDefaults /\ [][DfNext]_vars
SpecDirectUpdate == InitDirectUpdate /\ [][DuNext]_vars
SpecTnc    == InitTnc /\ [][TncNext]_vars
SpecThrottle == InitThrottle /\ [][ThrottleNext]_vars
SpecDeps   == InitDeps /\ [][DepsNext]_vars
SpecJobEvents == InitJobEvents /\ [][JobEventsNext]_vars

\* query(filters, options) of a plain CRUD store and of the replicated CRUD
\* wrapper: a behaviour queries the one or the other.
PlainStoreUnderTest == tsvc.kind = "config"

InitShape ==
    /\ JobsIdle /\ ConfigIdle /\ HealthIdle /\ CfgUpdIdle /\ BulkIdle /\ LockIdle /\ JobEventsIdle /\ ThrottleIdle /\ TncIdle /\ DuIdle /\ DfIdle
    /\ \/ QueryInit /\ TdbIdle
       \/ CrudIdle /\ TdbInit /\ tsvc.kind = "crud"

ShapeNext ==
    \/ \E fs \in QueryFilters, mode \in QueryModes, force \in BOOLEAN :
          PlainStoreUnderTest /\ Query(fs, mode, force) /\ CrudFrame
    \/ \E p \in TdbCalls, fs \in TdbFilters, mode \in QueryModes, c \in BOOLEAN :
          TDBWrapCRUDService_query(p, fs, mode, c) /\ TdbFrame
    \/ \E p \in TdbCalls, h \in HealthAnswers : cluster_healthy_returns(p, h) /\ TdbFrame
    \/ \E p \in TdbCalls, pr \in ProbeAnswers : db_healthy_returns(p, pr) /\ TdbFrame
    \/ \E p \in TdbCalls, rf \in BOOLEAN : tdb_read_returns(p, rf) /\ TdbFrame
    \/ \E p \in TdbCalls : extend_returns(p) /\ TdbFrame
    \/ \E p \in TdbCalls : insert_defaults_returns(p) /\ TdbFrame
    \/ \E p \in TdbCalls : filter_list_returns(p) /\ TdbFrame
    \/ \E p \in TdbCalls : Returns(p) /\ TdbFrame

SpecShape  == InitShape /\ [][ShapeNext]_vars

\* ========================================================================
\* Claims
\* ========================================================================
JobIds == DOMAIN jobs
RunningOn(L) == {j \in JobIds : JobLock(j) = L /\ jobs[j].state = "RUNNING"}
WaitingOn(L) == {j \in JobIds : JobLock(j) = L /\ jobs[j].state = "WAITING"}

\* C1: for every lock key L at most one job with lock L is RUNNING; every
\* other job with lock L that has not terminated is WAITING and is a member
\* of L's wait queue, which holds exactly those jobs once each, in order of
\* arrival.
C1_LockExclusion ==
    \A L \in LockKeys :
        /\ Cardinality(RunningOn(L)) <= 1
        /\ \A j \in JobIds :
              (JobLock(j) = L /\ jobs[j].state \notin TerminalStates /\ j \notin RunningOn(L))
                  => (jobs[j].state = "WAITING" /\ \E i \in DOMAIN queue[L] : queue[L][i] = j)
        /\ \A i \in DOMAIN queue[L] : queue[L][i] \in WaitingOn(L)
        /\ \A i, k \in DOMAIN queue[L] : i < k => queue[L][i] < queue[L][k]

C1_Witness ==
    \E L \in LockKeys : Cardinality(RunningOn(L)) = 1 /\ Cardinality(WaitingOn(L)) >= 2

\* C2: when a lock declares a maximum wait-queue length N and N jobs are
\* WAITING on it, a further submission for that lock creates no job (job
\* table, queue and holder unchanged) and returns the id of the job at the
\* tail of the queue.
C2_CoalesceOnFullQueue ==
    [][\A m \in JobMethodNames :
          (/\ JobOptions(m).lock # NoLock
           /\ lockDecl[JobOptions(m).lock].limited
           /\ Cardinality(WaitingOn(JobOptions(m).lock)) = lockDecl[JobOptions(m).lock].size
           /\ Submit(m))
          => (/\ jobs' = jobs
              /\ queue' = queue
              /\ holder' = holder
              /\ listed' = listed
              /\ ~submitRet'.created
              /\ submitRet'.id = Last(queue[JobOptions(m).lock]))]_vars

\* The scenario of C2: queue size 1, A RUNNING, B WAITING, C returns B's id.
C2_Witness ==
    /\ lockDecl["disk:sda"] = [limited |-> TRUE, size |-> 1]
    /\ Len(jobs) = 2
    /\ jobs[1].state = "RUNNING" /\ JobLock(1) = "disk:sda"
    /\ jobs[2].state = "WAITING" /\ JobLock(2) = "disk:sda"
    /\ submitRet = [method |-> "disk.wipe", id |-> 2, created |-> FALSE]

\* C9: a transient job that reached a terminal state is not in the listing
\* of core.get_jobs; a non-transient job that reached a terminal state is
\* listed with that state and with its result and error.
C9_TransientEvicted ==
    \A j \in JobIds :
        jobs[j].state \in TerminalStates =>
            IF JobTransient(j)
            THEN j \notin DOMAIN get_jobs
            ELSE /\ j \in DOMAIN get_jobs
                 /\ get_jobs[j].state \in TerminalStates
                 /\ (get_jobs[j].state = "SUCCESS" => get_jobs[j].result = "value")
                 /\ (get_jobs[j].state = "FAILED" => get_jobs[j].error = "message")

C9_Witness ==
    \E j, k \in JobIds :
        /\ JobTransient(j) /\ jobs[j].state = "SUCCESS" /\ j \notin DOMAIN get_jobs
        /\ ~JobTransient(k) /\ jobs[k].state = "FAILED" /\ k \in DOMAIN get_jobs

\* C3: against a datastore that starts without a row, any interleaving of
\* config() calls performs exactly one datastore.insert, and every caller
\* returns that single row.
C3_SingleDefaultRow ==
    cfgInitial = 0 =>
        /\ cfgInserts <= 1
        /\ Len(cfgRows) = cfgInserts
        /\ \A p \in Callers :
              cpc[p] = "done" => (cfgInserts = 1 /\ cret[p].row = [id |-> 1, extended |-> TRUE])

C3_Witness ==
    /\ cfgInitial = 0
    /\ \E p, q \in Callers : cret[p].via = "read3" /\ cret[q].via = "read2"
    /\ \A p \in Callers : cpc[p] = "done"

CreatedRecordPersisted ==
    /\ \E i \in DOMAIN rows : rows[i] = Row(crudOp.arg, crudOp.data)
    /\ get_instance(rows, crudOp.arg, svc.extend).outcome = "ok"
    /\ get_instance(rows, crudOp.arg, svc.extend).list[1]["id"] = crudOp.arg
    /\ get_instance(rows, crudOp.arg, svc.extend).list[1]["name"] = crudOp.data.name
    /\ get_instance(rows, crudOp.arg, svc.extend).list[1]["path"] = crudOp.data.path

AddedSent == \E i \in DOMAIN crudOp.log : crudOp.log[i] = "ADDED"

\* The step in which do_* of caller p returned without error.
DoReturned(p, op) == crudCall[p] = NoCall /\ crudCall'[p].op = op

\* The step in which the post hook of caller p returned or raised.
HookReturned(p, op) == crudCall[p].op = op /\ crudCall'[p] = NoCall

\* C4 as stated: in a create whose do_create succeeded, ADDED is emitted
\* iff the post_create hook did not raise; the record is in the store and
\* fetchable when do_create has returned, and the hook, raising or not,
\* leaves the store as it is.
C4_AddedIffHookOk ==
    /\ []((crudOp.op = "create" /\ crudOp.outcome \in {"ok", "hook_raised"}) =>
             (AddedSent <=> crudOp.outcome = "ok"))
    /\ [][\A p \in CrudCallers :
             /\ DoReturned(p, "create") => (~AddedSent' /\ CreatedRecordPersisted')
             /\ HookReturned(p, "create") => rows' = rows]_vars

\* C4 amended: ADDED is emitted iff the post_create hook did not raise, the
\* service sends events (event_send) and do_create returned a dict holding
\* 'id'; the record is in the store and fetchable when do_create has
\* returned, and the hook, raising or not, leaves the store as it is.
C4_AddedIffHookOkAndEventSent ==
    /\ []((crudOp.op = "create" /\ crudOp.outcome \in {"ok", "hook_raised"}) =>
             (AddedSent <=> (crudOp.outcome = "ok" /\ svc.event_send /\ svc.rvKind = "record")))
    /\ [][\A p \in CrudCallers :
             /\ DoReturned(p, "create") => (~AddedSent' /\ CreatedRecordPersisted')
             /\ HookReturned(p, "create") => rows' = rows]_vars

C4_Witness ==
    /\ crudOp.op = "create"
    /\ crudOp.outcome = "hook_raised"
    /\ ~AddedSent
    /\ svc.event_send /\ svc.rvKind = "record"
    /\ CreatedRecordPersisted

\* The referencing datastores that make an entry undeletable: they hold a
\* row whose foreign key is the id, and neither they nor their service are
\* ignored.
UnignoredDependents ==
    {D \in RefStores :
        /\ crudOp.arg \in depRows[D]
        /\ D \notin crudOp.ignored
        /\ ServiceOf(D) \notin crudOp.ignored}

\* C5 as stated: delete(id) of an entry with unignored dependents is refused
\* with the dependency error and the entry stays.
C5_DeleteRefusedWhenReferenced ==
    (crudOp.op = "delete" /\ crudOp.existed /\ UnignoredDependents # {}) =>
        (crudOp.outcome = "EBUSY" /\ crudOp.arg \in RowIds(rows))

\* C5 amended: delete(id) is refused with the EBUSY dependency error naming
\* the referencing services/datastores exactly when the service's do_delete
\* calls check_dependencies and unignored dependents exist, and then the
\* entry stays; otherwise the entry is removed and is no longer fetchable.
C5_DeleteGuardedWhenChecked ==
    (crudOp.op = "delete" /\ crudOp.existed) =>
        /\ (svc.checksDeps /\ UnignoredDependents # {}) <=> crudOp.outcome = "EBUSY"
        /\ crudOp.outcome = "EBUSY" =>
              /\ crudOp.arg \in RowIds(rows)
              /\ crudOp.names = {IF ServiceOf(D) # "" THEN ServiceOf(D) ELSE D : D \in UnignoredDependents}
        /\ crudOp.outcome # "EBUSY" =>
              /\ crudOp.arg \notin RowIds(rows)
              /\ get_instance(rows, crudOp.arg, svc.extend).outcome = "InstanceNotFound"

C5_Witness ==
    /\ crudOp.op = "delete"
    /\ crudOp.outcome = "EBUSY"
    /\ crudOp.ignored = {"D2"}
    /\ crudOp.names = {"svc1"}
    /\ crudOp.arg \in RowIds(rows)

ResultIds(res) == {res.list[i]["id"] : i \in DOMAIN res.list}

\* C10: with an extend transform and force_sql_filters unset, query fetches
\* every row with no storage filter, extends each and then applies filters
\* and get/count to the extended records, so a filter on the computed field
\* "locked" selects exactly the rows the transform marks locked; otherwise
\* filters and options go to storage unchanged.
C10_FiltersAfterExtend ==
    qOp.op = "query" =>
        IF svc.extend /\ ~qOp.force
        THEN /\ qOp.dsFilters = <<>>
             /\ qOp.dsMode = "list"
             /\ qOp.res = filter_list(MapExtend(rows), qOp.filters, qOp.mode)
             /\ (qOp.filters = <<Filter("locked", "=", TRUE)>> /\ qOp.mode = "list") =>
                    /\ qOp.res.outcome = "ok"
                    /\ ResultIds(qOp.res) = {rows[i].id : i \in {k \in DOMAIN rows : rows[k].path \in LockedPaths}}
                    /\ \A i \in DOMAIN qOp.res.list : qOp.res.list[i]["locked"] = TRUE
        ELSE /\ qOp.dsFilters = qOp.filters
             /\ qOp.dsMode = qOp.mode

C10_Witness ==
    /\ qOp.op = "query"
    /\ svc.extend /\ ~qOp.force
    /\ qOp.filters = <<Filter("locked", "=", TRUE)>>
    /\ qOp.mode = "list"
    /\ Len(rows) = 2
    /\ Len(qOp.res.list) = 1

\* ---- Replicated-store wrapper
ReadOps == {"config", "query"}
WriteOps == {"direct_update", "direct_create", "direct_delete"}

\* The configured tdb_defaults payload as a call result.
DefaultsResult == IF tdbOp.op = "config" THEN ResOne(ConfigDefaults) ELSE ResList(CrudDefaults)

\* The stamp stored in the backend differs from the compiled service_version.
StoredStampDiffers == tdb.stamped /\ tdb.version # service_version

\* C6: a clustered config()/query() whose cluster health result is falsy and
\* whose local-replica probe is unhealthy (answers something other than OK,
\* or raises) returns exactly tdb_defaults, does not raise, and does not read
\* the replicated backend.
C6_DefaultsWhenBothUnhealthy ==
    (/\ tdbOp.op \in ReadOps
     /\ tdbOp.clustered
     /\ tdbOp.ch # "True"
     /\ tdbOp.db \in {"BAD", "raise"})
    => (/\ tdbOp.outcome = "ok"
        /\ tdbOp.res = DefaultsResult
        /\ ~tdbOp.tdbRead)

C6_Witness ==
    /\ tdbOp.op = "query"
    /\ tdbOp.clustered
    /\ tdbOp.probed
    /\ tdbOp.ch = "False"
    /\ tdbOp.db = "raise"
    /\ tdbOp.res = ResList(CrudDefaults)
    /\ tdb.has
    /\ tdb.data # CrudDefaults

\* C7: when the stored version stamp differs from service_version, a
\* clustered config()/query() returns the default payload, never the stored
\* data and never an error.
C7_ReadReturnsDefaultsOnMismatch ==
    (tdbOp.op \in ReadOps /\ tdbOp.clustered /\ StoredStampDiffers)
        => (tdbOp.outcome = "ok" /\ tdbOp.res = DefaultsResult)

\* C8: when the stored version stamp differs from service_version, every
\* write (direct_update, direct_create, direct_delete) on a clustered healthy
\* store ends in a version-mismatch error and leaves the data stored in the
\* replicated backend as it was.
C8_WriteRefusedOnMismatch ==
    (/\ tdbOp.op \in WriteOps
     /\ tdbOp.clustered
     /\ tdbOp.ch = "True"
     /\ tdbOp.tdbWrite
     /\ StoredStampDiffers)
    => (tdbOp.outcome = "VersionMismatch" /\ ~tdbOp.stored)


\* ---- Job scheduler: ordering, lifecycle, abort
\* C11: jobs waiting on the same lock are promoted in arrival order: a job
\* that goes from WAITING to RUNNING is the head of its lock's wait queue and
\* the earliest-submitted waiter, it takes over the lock from a holder that
\* just terminated, and when a holder terminates while jobs wait, the head of
\* the queue becomes RUNNING in that same step.
C11_FifoPromotion ==
    [][/\ \A j \in JobIds :
             (jobs[j].state = "WAITING" /\ jobs'[j].state = "RUNNING") =>
                 /\ j = Head(queue[JobLock(j)])
                 /\ \A k \in WaitingOn(JobLock(j)) : j <= k
                 /\ holder[JobLock(j)] # 0
                 /\ jobs'[holder[JobLock(j)]].state \in TerminalStates
                 /\ holder'[JobLock(j)] = j
                 /\ queue'[JobLock(j)] = Tail(queue[JobLock(j)])
       /\ \A L \in LockKeys :
             (/\ holder[L] # 0
              /\ jobs[holder[L]].state = "RUNNING"
              /\ jobs'[holder[L]].state \in TerminalStates
              /\ queue[L] # <<>>)
             => jobs'[Head(queue[L])].state = "RUNNING"]_vars

\* Job 1 held the lock and terminated, job 2 runs, job 3 still waits.
C11_Witness ==
    /\ Len(jobs) = 3
    /\ \A j \in 1..3 : JobLock(j) = "disk:sda"
    /\ jobs[1].state \in TerminalStates
    /\ jobs[2].state = "RUNNING"
    /\ jobs[3].state = "WAITING"
    /\ holder["disk:sda"] = 2
    /\ queue["disk:sda"] = <<3>>

\* C18: a job's state moves only along WAITING -> RUNNING -> {SUCCESS,
\* FAILED, ABORTED}: terminal states are absorbing, RUNNING never goes back
\* to WAITING, a new job starts WAITING or RUNNING, and a job without a lock
\* is never WAITING.
C18_JobLifecycle ==
    [][/\ \A j \in JobIds :
             /\ jobs[j].state \in TerminalStates => jobs'[j].state = jobs[j].state
             /\ jobs[j].state = "RUNNING" => jobs'[j].state \in {"RUNNING"} \cup TerminalStates
             /\ jobs[j].state = "WAITING" => jobs'[j].state \in {"WAITING", "RUNNING"}
       /\ \A j \in DOMAIN jobs' :
             /\ j \notin JobIds => jobs'[j].state \in {"WAITING", "RUNNING"}
             /\ JobOptions(jobs'[j].method).lock = NoLock => jobs'[j].state # "WAITING"]_vars

C18_Witness ==
    \E j, k, w \in JobIds :
        /\ JobLock(j) = NoLock /\ jobs[j].state \in TerminalStates
        /\ JobLock(k) # NoLock /\ jobs[k].state = "RUNNING"
        /\ jobs[w].state = "WAITING"

\* C19: an abort request acts on a job only if the job is executing, marked
\* abortable and runs inline on the event loop: such a job ends ABORTED; for
\* any other job (on a thread, in a process, not abortable, waiting or
\* finished) the request changes neither the job table nor the locks, so a
\* running job stays RUNNING until its body completes; no job is ever
\* ABORTED unless it is abortable and runs inline.
C19_AbortOnlyCooperative ==
    /\ [](\A j \in JobIds :
             jobs[j].state = "ABORTED" =>
                 (JobOptions(jobs[j].method).abortable /\ JobOptions(jobs[j].method).mode = "loop"))
    /\ [][abortRet' # abortRet =>
             /\ abortRet'.id \in JobIds
             /\ IF /\ jobs[abortRet'.id].state = "RUNNING"
                   /\ JobOptions(jobs[abortRet'.id].method).abortable
                   /\ JobOptions(jobs[abortRet'.id].method).mode = "loop"
                THEN abortRet'.cancelled /\ jobs'[abortRet'.id].state = "ABORTED"
                ELSE /\ ~abortRet'.cancelled
                     /\ jobs' = jobs /\ holder' = holder /\ queue' = queue /\ listed' = listed]_vars

\* An abortable job running in a separate process was asked to abort and
\* went on to complete.
C19_Witness ==
    /\ abortRet.id \in JobIds
    /\ ~abortRet.cancelled
    /\ JobOptions(jobs[abortRet.id].method).abortable
    /\ JobOptions(jobs[abortRet.id].method).mode = "process"
    /\ jobs[abortRet.id].state = "SUCCESS"


\* ---- Replicated-store wrapper: availability of reads, gating of writes
\* C12: a clustered config()/query() never ends in an error, whatever the
\* health probes answer and whatever the backend read does: it returns
\* stored data or the default payload.
C12_ClusteredReadNeverErrs ==
    (tdbOp.op \in ReadOps /\ tdbOp.clustered) => tdbOp.outcome = "ok"

\* C13: a clustered write (direct_update, direct_create, direct_delete)
\* whose cluster health result, fresh or cached, is not healthy ends in an
\* explicit error, consults neither the local-replica probe nor the backend,
\* and stores nothing in the replicated backend; the step in which it is
\* refused leaves the backend's content as it was.
C13_UnhealthyWriteRefused ==
    /\ []((tdbOp.op \in WriteOps /\ tdbOp.clustered /\ tdbOp.ch # "True")
            => (/\ tdbOp.outcome = "Unhealthy"
                /\ tdbOp.res = ResErr("Unhealthy")
                /\ tdbOp.db = "skip"
                /\ ~tdbOp.tdbRead
                /\ ~tdbOp.tdbWrite
                /\ ~tdbOp.stored))
    /\ [][(tdbOp' # tdbOp /\ tdbOp'.op \in WriteOps /\ tdbOp'.clustered /\ tdbOp'.ch # "True")
            => tdb' = tdb]_vars

\* A delete refused on a cached unhealthy result while the backend holds an entry.
C13_Witness ==
    /\ tdbOp.op = "direct_delete"
    /\ tdbOp.clustered
    /\ ~tdbOp.probed
    /\ tdbOp.ch = "False"
    /\ tdbOp.outcome = "Unhealthy"
    /\ tdb.has
    /\ tdb.data # <<>>


\* ---- Replicated-store wrapper: the extend transform on returned records
\* Every record of a result carries the key the extend transform adds.
AllExtended(res) == \A i \in DOMAIN res.list : "ext" \in DOMAIN res.list[i]
NoneExtended(res) == \A i \in DOMAIN res.list : "ext" \notin DOMAIN res.list[i]

\* The calls in which the wrapper hands out tdb_defaults without the
\* transform: both probes unhealthy (no backend read), and query() finding no
\* data, a differing version stamp, or an empty store it seeds with defaults.
DefaultsHandedOutRaw ==
    /\ tdbOp.clustered
    /\ \/ ~tdbOp.tdbRead
       \/ /\ tdbOp.op = "query"
          /\ (tdbOp.tdbWrite \/ tdbOp.saw \in {"nodata", "mismatch"})

\* C15 (as stated): every record a store with a registered extend transform
\* returns has passed through the transform, in every health and version
\* state of the replicated wrapper, default payloads included.
C15_ReturnedRecordsExtended ==
    (tsvc.extend /\ tdbOp.op \in ReadOps /\ tdbOp.outcome = "ok") => AllExtended(tdbOp.res)

\* C15 (amended): with a registered extend transform, every record read from
\* storage (the local datastore or the replicated backend) is returned
\* extended, and so are the defaults config() substitutes after a backend
\* read; the defaults the wrapper returns without reading the backend, and
\* the defaults query() returns for missing data, a differing version stamp
\* or a freshly seeded store, are returned as configured, not extended.
C15_StoredRecordsExtendedDefaultsRaw ==
    (tsvc.extend /\ tdbOp.op \in ReadOps /\ tdbOp.outcome = "ok") =>
        IF DefaultsHandedOutRaw
        THEN /\ NoneExtended(tdbOp.res)
             /\ \A i \in DOMAIN tdbOp.res.list :
                   tdbOp.res.list[i] \in {ConfigDefaults} \cup SeqToSet(CrudDefaults)
        ELSE AllExtended(tdbOp.res)

C15_Witness ==
    /\ tsvc.extend
    /\ tdbOp.op = "query"
    /\ tdbOp.clustered
    /\ tdbOp.tdbRead
    /\ StoredStampDiffers
    /\ tdbOp.res.list = CrudDefaults
    /\ tdb.data # <<>>


\* ---- CRUDService: order of do_*, post hook and change notification
MutatingOps == {"create", "update", "delete"}
Notifications == {"ADDED", "CHANGED", "REMOVED"}
DoStep == [create |-> "do_create", update |-> "do_update", delete |-> "do_delete"]
PostStep == [create |-> "post_create", update |-> "post_update", delete |-> "post_delete"]

\* The mutation do_* made is in the store.
MutationInStore ==
    CASE crudOp.op = "create" ->
            \E i \in DOMAIN rows : rows[i] = Row(crudOp.arg, crudOp.data)
      [] crudOp.op = "update" ->
            \E i \in DOMAIN rows : rows[i] = Row(crudOp.arg, crudOp.data)
      [] crudOp.op = "delete" -> crudOp.arg \notin RowIds(rows)

\* C16: in create/update/delete the do_* method runs first, the post hook
\* runs only after do_* returned, and a change notification is emitted only
\* after the post hook returned: a failing do_* leaves neither hook call nor
\* notification, and a failing post hook leaves no notification; the
\* mutation is in the store when do_* has returned and the post hook,
\* failing or not, leaves the store as it is.
C16_HookThenNotification ==
    /\ [](crudOp.op \in MutatingOps =>
             /\ crudOp.log # <<>>
             /\ crudOp.log[1] = DoStep[crudOp.op]
             /\ \A i \in DOMAIN crudOp.log :
                   /\ crudOp.log[i] = PostStep[crudOp.op] =>
                         (i = 2 /\ crudOp.outcome \in {"ok", "hook_raised"})
                   /\ crudOp.log[i] \in Notifications =>
                         (i > 2 /\ crudOp.log[2] = PostStep[crudOp.op] /\ crudOp.outcome = "ok")
             /\ crudOp.outcome \in {"do_raised", "EBUSY", "in_hook"} => crudOp.log = <<DoStep[crudOp.op]>>
             /\ crudOp.outcome = "hook_raised" => crudOp.log = <<DoStep[crudOp.op], PostStep[crudOp.op]>>
             /\ crudOp.outcome = "ok" => (Len(crudOp.log) >= 2 /\ crudOp.log[2] = PostStep[crudOp.op]))
    /\ [][\A p \in CrudCallers, op \in MutatingOps :
             /\ DoReturned(p, op) => (crudOp'.outcome = "in_hook" /\ MutationInStore')
             /\ HookReturned(p, op) => (crudOp'.outcome \in {"ok", "hook_raised"} /\ rows' = rows)
             /\ (crudOp'.op \in MutatingOps /\ crudOp'.outcome \in {"do_raised", "EBUSY"}) =>
                   (rows' = rows /\ crudCall' = crudCall)]_vars

\* A create whose post hook failed on a service that sends events, while
\* another caller is suspended in the post hook of its own call: the record
\* is stored, no ADDED was emitted.
C16_Witness ==
    /\ crudOp.op = "create"
    /\ crudOp.outcome = "hook_raised"
    /\ svc.event_send
    /\ svc.rvKind = "record"
    /\ crudOp.arg \in RowIds(rows)
    /\ crudOp.log = <<"do_create", "post_create">>
    /\ \E q \in CrudCallers : crudCall[q].op = "update"


\* ---- Health-check caching
\* C14 (as stated): for any sequence or interleaving of cluster_healthy()
\* calls, two invocations of the health predicate are never less than
\* time_offset apart.
C14_OneProbePerWindow ==
    \A i, k \in DOMAIN probeLog :
        i < k => probeLog[k].at - probeLog[i].at >= time_offset

\* C14 (amended): the health predicate is invoked only by a call whose clock
\* reading is at least time_offset past the last_check value it read, and a
\* call that finds last_check + time_offset > now returns the cached status
\* without invoking it; calls that overlap while the cache is stale each
\* invoke the predicate.
C14_ProbeOnlyWhenCacheStale ==
    /\ [](\A i \in DOMAIN probeLog : probeLog[i].at >= probeLog[i].last + time_offset)
    /\ [][/\ probeLog' # probeLog => last_check + time_offset <= now
          /\ \A p \in HealthCallers :
                (hret'[p] # hret[p] /\ ~hret'[p].probed) =>
                    (/\ last_check + time_offset > now
                     /\ hret'[p].value = status
                     /\ probeLog' = probeLog)]_vars

\* Two overlapping calls probed at the same instant, and a later call inside
\* the window was served from the cache.
C14_Witness ==
    /\ Len(probeLog) >= 2
    /\ probeLog[1].at = probeLog[2].at
    /\ \E p \in HealthCallers :
          /\ hpc[p] = "idle"
          /\ ~hret[p].probed
          /\ hret[p].value # "None"
          /\ hnow[p] > probeLog[2].at
          /\ hnow[p] < probeLog[2].at + time_offset

\* ---- ConfigService.update
\* The settings a call submitted are the ones the row held when the call's
\* do_update had stored.
SubmittedOver(prev, d) == [k \in {"a", "b"} |-> IF k \in DOMAIN d THEN d[k] ELSE prev[k]]

\* C17: update(data) runs do_update and then the post_update hook with
\* do_update's result; if the hook raises, update ends in that error and the
\* settings do_update stored remain stored; if do_update raises, whether
\* before or after it stored, the hook is not invoked.
C17_UpdateHookNoRollback ==
    /\ [](cfgOp.op = "update" =>
            /\ cfgOp.outcome \in {"do_raised", "in_do_update", "in_hook", "hook_raised", "ok"}
            /\ cfgOp.outcome \in {"do_raised", "in_do_update"} =>
                  (~cfgOp.hookCalled /\ cfgOp.log = <<"do_update">>)
            /\ cfgOp.outcome \in {"in_hook", "hook_raised", "ok"} =>
                  /\ cfgOp.hookCalled
                  /\ cfgOp.stored
                  /\ cfgOp.log = <<"do_update", "post_update">>
                  /\ cfgOp.hookArg = cfgOp.rv)
    /\ [][/\ cfgOp'.outcome = "in_do_update" => cfgData' = SubmittedOver(cfgData, cfgOp'.data)
          /\ cfgOp'.outcome = "in_hook" => (cfgData' = cfgData /\ cfgOp'.rv = cfgData)
          /\ cfgOp'.outcome \in {"hook_raised", "ok"} => cfgData' = cfgData]_vars

\* The hook raised and the row holds what do_update returned.
C17_Witness ==
    /\ cfgOp.op = "update"
    /\ cfgOp.outcome = "hook_raised"
    /\ cfgData = cfgOp.rv
    /\ cfgData # [a |-> 0, b |-> 0]

\* ---- core.bulk
CallEvents(i) == {x \in DOMAIN bLog : bLog[x].ev = "call" /\ bLog[x].i = i}
WaitEvents(i) == {x \in DOMAIN bLog : bLog[x].ev = "wait" /\ bLog[x].i = i}

\* C20: core.bulk calls the method once per element of params, one after
\* another in list order, call i+1 only after call i and the wait for the
\* job it returned have finished; it returns exactly len(params) statuses,
\* status i being that of params[i]; for empty params it returns an empty
\* list without calling the method.
C20_BulkSequential ==
    bDescr # "bad" =>
        /\ \A x, y \in DOMAIN bLog : x < y => bLog[x].i <= bLog[y].i
        /\ \A i \in DOMAIN bParams :
              /\ Cardinality(CallEvents(i)) <= 1
              /\ CallEvents(i) # {} => Len(bStatuses) >= i - 1
              /\ (bPc = "call" /\ bIdx = i) => (Len(bStatuses) = i - 1 /\ CallEvents(i) = {})
              /\ WaitEvents(i) # {} =>
                    (/\ ReturnsJob(bParams[i])
                     /\ \A w \in WaitEvents(i), c \in CallEvents(i) : c < w)
        /\ \A k \in DOMAIN bStatuses :
              /\ k \in DOMAIN bParams
              /\ bStatuses[k] = CallStatus(bParams[k], k)
              /\ Cardinality(CallEvents(k)) = 1
              /\ ReturnsJob(bParams[k]) => Cardinality(WaitEvents(k)) = 1
        /\ bPc = "done" => Len(bStatuses) = Len(bParams)
        /\ bParams = <<>> => (bLog = <<>> /\ bStatuses = <<>>)

C20_Witness ==
    /\ bPc = "done"
    /\ bParams = <<"job_error", "value">>
    /\ bStatuses = <<[result |-> "None", error |-> "job_exc", job_id |-> 1],
                     [result |-> "rv", error |-> "None", job_id |-> 0]>>
    /\ Len(bLog) = 5


\* C21: in core.bulk a failing call neither stops the remaining calls nor
\* fails the bulk job: a call that raises leaves the status {result: null,
\* error: message} at its index, a returned job that ends with an error
\* leaves that error in its status, every later element is still called,
\* and the bulk job ends in SUCCESS whatever the calls did.
C21_BulkToleratesFailures ==
    bDescr # "bad" =>
        /\ BulkJobState # "FAILED"
        /\ \A k \in DOMAIN bStatuses :
              /\ bParams[k] = "raises" =>
                    bStatuses[k] = [result |-> "None", error |-> "exc", job_id |-> 0]
              /\ bParams[k] = "job_error" =>
                    (bStatuses[k].error = "job_exc" /\ bStatuses[k].job_id = k)
        /\ \A i \in DOMAIN bParams :
              (i <= Len(bStatuses) /\ i < Len(bParams)) =>
                  (bPc \in {"loop", "call", "wait", "done"} /\ (bPc # "done" => bIdx > i))
        /\ bPc = "done" =>
              /\ BulkJobState = "SUCCESS"
              /\ Len(bStatuses) = Len(bParams)
              /\ \A i \in DOMAIN bParams : CallEvents(i) # {}

C21_Witness ==
    /\ bPc = "done"
    /\ BulkJobState = "SUCCESS"
    /\ bParams = <<"raises", "job_error">>
    /\ bStatuses = <<[result |-> "None", error |-> "exc", job_id |-> 0],
                     [result |-> "None", error |-> "job_exc", job_id |-> 2]>>
    /\ CallEvents(2) # {}


\* The stored row whose primary key is id, as query hands it out.
StoredInstance(id) ==
    LET r == CHOOSE x \in SeqToSet(rows) : x.id = id
    IN  IF svc.extend THEN Extend(r) ELSE r

\* C22: get_instance(id) returns the record whose primary key equals id
\* when the store holds one, and ends in InstanceNotFound when it holds
\* none; it never returns a record with another primary key.
C22_GetInstanceByPrimaryKey ==
    crudOp.op = "get_instance" =>
        /\ crudOp.arg \in RowIds(rows) =>
              /\ crudOp.outcome = "ok"
              /\ crudOp.ret = <<StoredInstance(crudOp.arg)>>
        /\ crudOp.arg \notin RowIds(rows) =>
              /\ crudOp.outcome = "InstanceNotFound"
              /\ crudOp.ret = <<>>
        /\ \A i \in DOMAIN crudOp.ret : crudOp.ret[i].id = crudOp.arg

C22_Witness ==
    /\ crudOp.op = "get_instance"
    /\ crudOp.arg = 2
    /\ RowIds(rows) = {1, 2}
    /\ crudOp.outcome = "ok"
    /\ Len(crudOp.ret) = 1
    /\ crudOp.ret[1].id = 2


Executing(p) == lkPc[p] = "executing"

\* C23: two executions of coroutine functions wrapped with lock(key) never
\* overlap on the same key, and neither do two executions of blocking
\* functions; a coroutine function and a blocking function wrapped with the
\* same key are not excluded from one another (the witness shows both
\* executing at once).
C23_LockExclusionPerDomain ==
    \A p, q \in Executions :
        (/\ p # q
         /\ Executing(p) /\ Executing(q)
         /\ lkFns[p].key = lkFns[q].key) => lkFns[p].kind # lkFns[q].kind

C23_Witness ==
    \E p, q, r \in Executions :
        /\ lkFns[p] = [kind |-> "coroutine", key |-> "k1"]
        /\ lkFns[q] = [kind |-> "blocking", key |-> "k1"]
        /\ lkFns[r] = [kind |-> "coroutine", key |-> "k1"]
        /\ p # r
        /\ Executing(p) /\ Executing(q)
        /\ lkPc[r] = "acquiring"


\* A clustered write that reached the backend while the stored stamp
\* differed from service_version: the backend detected the mismatch.
MismatchAtWrite ==
    /\ tdbOp.op \in WriteOps
    /\ tdbOp.clustered
    /\ tdbOp.tdbWrite
    /\ tdbOp.outcome # "BackendError"
    /\ StoredStampDiffers

\* C24: every version mismatch detected at write time (direct_update,
\* direct_create, direct_delete) ends in the explicit version-mismatch error,
\* and that error names both the local service_version and the stored
\* version; the write is never dropped or coerced silently.
C24_MismatchErrorNamesBothVersions ==
    MismatchAtWrite =>
        /\ tdbOp.outcome = "VersionMismatch"
        /\ [who |-> "Node", version |-> service_version] \in tdbOp.versions
        /\ [who |-> "cluster", version |-> tdb.version] \in tdbOp.versions


\* The shape the options ask for.
ShapeFor(mode) ==
    CASE mode = "count" -> "count"
      [] mode = "get"   -> "record"
      [] OTHER          -> "list"

\* The wrapper's clustered query handed out tdb_defaults directly: both
\* health results were unhealthy, the backend held no data, or the stored
\* stamp differed from service_version.
DefaultsHandedOut ==
    /\ tdbOp.clustered
    /\ \/ tdbOp.ch # "True" /\ tdbOp.db # "OK"
       \/ tdbOp.tdbRead /\ tdbOp.saw \in {"nodata", "mismatch"}

\* C25 (as stated): the value query(filters, options) returns is a count
\* when count is set, a single record when get is set and a list otherwise,
\* for plain CRUD stores and for the replicated wrapper's query in every
\* topology, health and version state.
C25_ShapeByOptionsAlone ==
    /\ (qOp.op = "query" /\ qOp.res.outcome = "ok") => qOp.res.shape = ShapeFor(qOp.mode)
    /\ (tdbOp.op = "query" /\ tdbOp.outcome = "ok") => tdbOp.res.shape = ShapeFor(tdbOp.mode)

\* C25 (amended): the shape follows the options for plain CRUD stores and
\* for the wrapper whenever it serves the local datastore or the stored
\* entries; when the wrapper substitutes tdb_defaults (both health results
\* unhealthy, no stored data, version mismatch) it returns the defaults list
\* as it is, whatever the options.
C25_ShapeByOptionsUnlessDefaults ==
    /\ (qOp.op = "query" /\ qOp.res.outcome = "ok") => qOp.res.shape = ShapeFor(qOp.mode)
    /\ (tdbOp.op = "query" /\ tdbOp.outcome = "ok") =>
          IF DefaultsHandedOut
          THEN tdbOp.res = ResList(CrudDefaults)
          ELSE tdbOp.res.shape = ShapeFor(tdbOp.mode)

C25_Witness ==
    /\ tdbOp.op = "query"
    /\ tdbOp.mode = "count"
    /\ tdbOp.clustered
    /\ tdbOp.ch = "True"
    /\ StoredStampDiffers
    /\ tdbOp.outcome = "ok"
    /\ tdbOp.res.shape = "list"


\* C26: no ADDED or CHANGED job notification is ever sent for a transient
\* job, whatever point of its lifecycle it is at (submission, start,
\* progress update, termination).
C26_NoEventsForTransientJobs ==
    \A e \in jobEvents : e.id \in DOMAIN jobs /\ ~JobTransient(e.id)

C26_Witness ==
    /\ Len(jobs) = 2
    /\ jobs[1].method = "disk.wipe" /\ jobs[1].state = "SUCCESS"
    /\ jobs[2].method = "disk.smart" /\ jobs[2].state = "SUCCESS"
    /\ jobProgress[2] = 100
    /\ jobEvents = {[kind |-> "ADDED", id |-> 1], [kind |-> "CHANGED", id |-> 1]}


\* C27: the local-replica probe (db_healthy) is invoked only on the
\* wrapper's read path, config() and query(), and there only in calls where
\* cluster_healthy() returned an unhealthy result; it is not invoked when
\* cluster_healthy() returned healthy, and never in a write call.
C27_LocalProbeOnlyWhenUnhealthy ==
    /\ tdbOp.db # "skip" => (tdbOp.op \in ReadOps /\ tdbOp.ch \in {"False", "None"})
    /\ (tdbOp.op \in ReadOps /\ tdbOp.ch = "True") => tdbOp.db = "skip"
    /\ tdbOp.op \in WriteOps => tdbOp.db = "skip"


\* The datastores the error of check_dependencies lists.
ListedDatastores == {crudOp.ret[i].datastore : i \in DOMAIN crudOp.ret}

\* C28: check_dependencies(id, ignored) raises EBUSY exactly when some
\* referencing datastore holds a row whose foreign key is id while neither
\* the datastore nor the service owning it is ignored; the error lists
\* exactly those datastores/services, one entry each; with no such
\* reference the call returns without error.
C28_CheckDependenciesExact ==
    crudOp.op = "check_dependencies" =>
        /\ crudOp.outcome = (IF UnignoredDependents # {} THEN "EBUSY" ELSE "ok")
        /\ ListedDatastores = UnignoredDependents
        /\ Len(crudOp.ret) = Cardinality(UnignoredDependents)
        /\ \A i \in DOMAIN crudOp.ret : crudOp.ret[i].service = ServiceOf(crudOp.ret[i].datastore)
        /\ crudOp.names = {IF ServiceOf(D) # "" THEN ServiceOf(D) ELSE D : D \in UnignoredDependents}

C28_Witness ==
    /\ crudOp.op = "check_dependencies"
    /\ crudOp.arg = 2
    /\ crudOp.ignored = {"svc1"}
    /\ 2 \in depRows["D1"] /\ 2 \in depRows["D2"]
    /\ crudOp.outcome = "EBUSY"
    /\ crudOp.ret = <<[datastore |-> "D2", service |-> ""]>>

\* C29: the dependency guard only reads: check_dependencies and
\* get_dependencies leave the rows of this store and of every referencing
\* store as they were, and delete (refused or not) never removes or changes
\* a row of a referencing store.
C29_GuardNeverCascades ==
    [][/\ crudOp'.op \in {"check_dependencies", "get_dependencies"} =>
             (rows' = rows /\ depRows' = depRows)
       /\ crudOp'.op = "delete" => depRows' = depRows]_vars

C29_Witness ==
    /\ crudOp.op = "delete"
    /\ crudOp.outcome = "ok"
    /\ crudOp.arg = 1
    /\ 1 \notin RowIds(rows)
    /\ 1 \in depRows["D1"]
    /\ svc.checksDeps
    /\ crudOp.ignored = {"D1"}


\* C30: the backend is chosen per call by the topology probe. A call in
\* which the probe reports not clustered uses only the local datastore and
\* leaves the health cache (status, last_check) and the replicated backend
\* untouched; a call in which it reports clustered neither reads nor writes
\* the local datastore.
C30_BackendChosenPerCall ==
    /\ []((tdbOp.op # "none" /\ ~tdbOp.clustered) =>
            (/\ tdbOp.dsRead \/ tdbOp.dsWrite
             /\ ~tdbOp.tdbRead /\ ~tdbOp.tdbWrite
             /\ tdbOp.ch = "skip" /\ ~tdbOp.probed /\ tdbOp.db = "skip"))
    /\ []((tdbOp.clustered \/ tdbOp.config_clustered = "True") =>
            (~tdbOp.dsRead /\ ~tdbOp.dsWrite))
    /\ [][(tdbOp = NoTdbOp /\ tdbOp' # NoTdbOp) =>
            (/\ ~tdbOp'.clustered =>
                   (status' = status /\ last_check' = last_check /\ tdb' = tdb)
             /\ tdbOp'.clustered => localDs' = localDs)]_vars


\* ------------------------------------------------------------------------
\* C31: under any interleaving of concurrent callers, two registered calls
\* with the same key are more than the throttle period apart, and a call
\* the condition lets through runs at once and leaves last_calls alone.
Registered(k) == Len(thLog'[k]) = Len(thLog[k]) + 1

C31_AdmissionsApart ==
    /\ [](\A k \in ThrottleKeys : \A i, j \in DOMAIN thLog[k] :
            i < j => thLog[k][j] - thLog[k][i] > thDeco.seconds)
    /\ [][\A p \in Throttled :
            (thPc[p] = "idle" /\ thPc'[p] # "idle" /\ thLog' = thLog)
                => \/ thPc'[p] = "waiting"
                   \/ thDeco.condition /\ thPc'[p] = "running" /\ last_calls' = last_calls]_vars

C31_Witness ==
    /\ \E k \in ThrottleKeys : Len(thLog[k]) >= 2
    /\ \E p, q \in Throttled : p # q /\ thPc[p] = "running" /\ thPc[q] = "waiting"
    /\ \E p \in Throttled : thPc[p] = "running" /\ thKey[p] = "None" /\ thDeco.condition

\* ------------------------------------------------------------------------
\* C40: a throttled call is never turned away: no caller ends in a raised
\* exception, a waiting caller leaves the loop only by being registered,
\* and more callers than max_waiters may wait at once.
C40_NeverRejected ==
    /\ [](\A p \in Throttled : thPc[p] \in {"idle", "waiting", "running"})
    /\ [][\A p \in Throttled :
            (thPc[p] = "waiting" /\ thPc'[p] # "waiting")
                => thPc'[p] = "running" /\ Registered(thKey[p])]_vars

C40_Witness ==
    /\ Cardinality(Waiting) > thDeco.max_waiters
    /\ \E k \in ThrottleKeys : thLog[k] # <<>>


\* ------------------------------------------------------------------------
\* C32: a sync that finds in the cache the same set of IPs it computed makes
\* no datastore update and no registration; a sync that finds no entry or
\* another set writes interfaces_ips to the datastore first and calls the
\* registration second.
SameIpSet(a, b) == \A x \in {"i1", "i2", "d1"} :
    (\E i \in DOMAIN a : a[i] = x) <=> (\E j \in DOMAIN b : b[j] = x)

SawSameIps(p) == tncLocal[p].seen.has /\ SameIpSet(tncLocal[p].seen.ips, tncLocal[p].ips)

C32_SyncSkipsOnlyWhenCachedEqual ==
    \A p \in Syncs : tncPc[p] \in {"update", "register", "response", "cache_put", "done"} =>
        /\ SawSameIps(p) => tncPc[p] = "done" /\ tncCalls[p] = <<>>
        /\ ~SawSameIps(p) =>
            /\ tncPc[p] = "update" => tncCalls[p] = <<>>
            /\ tncPc[p] = "register" => tncCalls[p] = <<"datastore.update">>
            /\ tncPc[p] \in {"response", "cache_put", "done"} =>
                /\ Len(tncCalls[p]) >= 2
                /\ tncCalls[p][1] = "datastore.update"
                /\ tncCalls[p][2] = "register_update_ips"

C32_Witness ==
    \E p \in Syncs :
        /\ tncPc[p] = "done" /\ tncCalls[p] = <<>>
        /\ tncLocal[p].seen.has /\ tncLocal[p].seen.ips # tncLocal[p].ips
        /\ tncDsIps = tncLocal[p].seen.ips

\* ------------------------------------------------------------------------
\* C33 as stated: the cache is written only after a registration without an
\* error and with exactly the IPs that were registered; a failed
\* registration leaves the cache as it was, so that a later sync with the
\* same interface IPs registers again.
CacheWrittenBy(p) == tncPc[p] = "cache_put" /\ tncPc'[p] = "done"

FailedSync(p) ==
    /\ tncPc[p] = "done"
    /\ tncLocal[p].resp \in {"error", "raise"}
    /\ tncLocal[p].seen = tncCache

RetriedAfterFailure ==
    \A p, q \in Syncs :
        (FailedSync(p) /\ tncPc[q] = "cache_get" /\ tncPc'[q] # "cache_get"
            /\ SameIpSet(tncLocal[q].ips, tncLocal[p].ips))
        => tncPc'[q] = "update"

CacheKeptOnFailure ==
    \A p \in Syncs :
        (tncPc[p] = "response" /\ tncPc'[p] # "response" /\ tncLocal'[p].resp # "ok")
        => tncCache' = tncCache /\ tncPc'[p] = "done"

C33_CacheHoldsRegisteredIps ==
    [][/\ tncCache' # tncCache /\ tncCache'.has =>
            \E p \in Syncs : /\ CacheWrittenBy(p)
                             /\ tncLocal[p].resp = "ok"
                             /\ tncCache'.ips = tncLocal[p].sent
       /\ CacheKeptOnFailure
       /\ RetriedAfterFailure]_vars

\* C33, amended: the cache is written only after a registration without an
\* error, with the interface IPs the call computed; the registration sent
\* the direct ips followed by the interfaces_ips the datastore then held.
C33_CacheHoldsComputedInterfaceIps ==
    [][/\ tncCache' # tncCache /\ tncCache'.has =>
            \E p \in Syncs : /\ CacheWrittenBy(p)
                             /\ tncLocal[p].resp = "ok"
                             /\ tncCache'.ips = tncLocal[p].ips
                             /\ \E own \in IpLists : tncLocal[p].sent = tncIps \o own
       /\ CacheKeptOnFailure
       /\ RetriedAfterFailure]_vars

\* A registration failed and left the cache as it was; a sync called after
\* that, with the same interface IPs, found the same cache entry, wrote the
\* datastore and called the registration again.
C33_Witness ==
    \E p, q \in Syncs :
        /\ p # q
        /\ tncPc[p] = "done" /\ tncLocal[p].resp = "error"
        /\ tncLocal[p].seen = tncCache
        /\ Range(tncLocal[q].ips) \in tncLocal[q].after
        /\ SameIpSet(tncLocal[q].ips, tncLocal[p].ips)
        /\ tncLocal[q].seen = tncCache
        /\ tncPc[q] = "response"
        /\ tncCalls[q] = <<"datastore.update", "register_update_ips">>
        /\ tncDsIps = tncLocal[q].ips


\* ------------------------------------------------------------------------
\* C34: when every RUNNING job eventually ends, every job WAITING on a lock
\* eventually becomes RUNNING; each of SUCCESS, FAILED and ABORTED releases
\* the lock and promotes the head of its queue.
StateOf(j) == IF j \in DOMAIN jobs THEN jobs[j].state ELSE "NONE"

EndsHolding(j, L) ==
    /\ StateOf(j) = "RUNNING" /\ holder[L] = j
    /\ jobs'[j].state \in TerminalStates

C34_WaitingJobsEventuallyRun ==
    /\ \A j \in 1..MaxFairJobs : (StateOf(j) = "WAITING") ~> (StateOf(j) = "RUNNING")
    /\ [][\A j \in 1..MaxFairJobs, L \in LockKeys : EndsHolding(j, L) =>
            IF queue[L] = <<>> THEN holder'[L] = 0
            ELSE /\ holder'[L] = Head(queue[L])
                 /\ jobs'[Head(queue[L])].state = "RUNNING"
                 /\ queue'[L] = Tail(queue[L])]_vars

C34_Witness ==
    \E i, j, k \in DOMAIN jobs :
        /\ i < j /\ j < k
        /\ jobs[i].state = "ABORTED"
        /\ jobs[j].state \in {"SUCCESS", "FAILED"}
        /\ jobs[k].state = "RUNNING"
        /\ JobLock(i) = JobLock(j) /\ JobLock(j) = JobLock(k) /\ holder[JobLock(k)] = k


\* ------------------------------------------------------------------------
HealthValues == {"None", "True", "False"}

\* The last call of p ended in a failure of the predicate, stored with the
\* clock value hnow[p], and the re-check interval that began then is not over.
InFailureInterval(p) ==
    /\ hpc[p] = "idle"
    /\ hret[p].raised
    /\ now - hnow[p] < time_offset

\* A call of q returns in this step: served from the cache, or with the
\* answer of the predicate it awaited.
HealthCallReturns(q) ==
    \/ hpc[q] = "await" /\ hpc'[q] = "idle"
    \/ hpc[q] = "idle" /\ hpc'[q] = "idle" /\ (hret'[q] # hret[q] \/ hnow'[q] # hnow[q])

\* C35 (as stated): cluster_healthy() never raises; when the health
\* predicate raises the call returns False and stores False with the time
\* the call read, and every call that returns during the rest of the
\* re-check interval returns False.
C35_FailureReturnedForInterval ==
    /\ [](status \in HealthValues /\ \A p \in HealthCallers : hret[p].value \in HealthValues)
    /\ [][\A p \in HealthCallers :
            /\ (hpc[p] = "await" /\ hpc'[p] = "idle" /\ hret'[p].raised) =>
                    /\ hret'[p].value = "False"
                    /\ status' = "False"
                    /\ last_check' = hnow[p]
            /\ \A q \in HealthCallers :
                    (InFailureInterval(p) /\ HealthCallReturns(q)) => hret'[q].value = "False"]_vars

\* C35 (amended): cluster_healthy() never raises; when the health predicate
\* raises the call returns False and stores False with the time the call
\* read, and a call that finds that entry stored and fresh gets the stored
\* False without a probe.  A call that was awaiting its own predicate when
\* the failure was stored returns and stores its own answer.
StoredFalseStillFresh == status = "False" /\ now - last_check < time_offset

C35_PredicateFailureIsUnhealthy ==
    /\ [](status \in HealthValues /\ \A p \in HealthCallers : hret[p].value \in HealthValues)
    /\ [][\A p \in HealthCallers :
            /\ (hpc[p] = "await" /\ hpc'[p] = "idle" /\ hret'[p].raised) =>
                    /\ hret'[p].value = "False"
                    /\ status' = "False"
                    /\ last_check' = hnow[p]
            /\ (hpc[p] = "idle" /\ StoredFalseStillFresh /\ (hret'[p] # hret[p] \/ hpc'[p] # "idle")) =>
                    /\ hpc'[p] = "idle"
                    /\ hret'[p].value = "False" /\ ~hret'[p].probed
                    /\ probeLog' = probeLog]_vars

C35_Witness ==
    \E p, q \in HealthCallers :
        /\ p # q
        /\ hret[p].raised /\ hret[p].value = "False" /\ last_check = hnow[p]
        /\ hret[q].value = "False" /\ ~hret[q].probed
        /\ hnow[q] > hnow[p] /\ hnow[q] < last_check + time_offset
        /\ status = "False"


\* ------------------------------------------------------------------------
\* C36: every value a finished cluster_healthy() call returned is the answer
\* of an invocation of the health predicate made no more than time_offset
\* before the call; in particular no call returns the unset status.
HasReturned(p) == hpc[p] = "idle" /\ (hnow[p] > 0 \/ hret[p].probed)

C36_ReturnedValueIsRecentProbe ==
    \A p \in HealthCallers : HasReturned(p) =>
        /\ hret[p].value # "None"
        /\ \E i \in DOMAIN probeLog :
            /\ probeLog[i].at <= hnow[p]
            /\ hnow[p] - probeLog[i].at <= time_offset


\* ------------------------------------------------------------------------
\* C37: a call of the clustered wrapper whose cluster health result is
\* unhealthy, on the read path or on the write path, makes no mutating call
\* to the replicated backend.
C37_NoBackendWriteWhileUnhealthy ==
    (tdbOp.op # "none" /\ tdbOp.clustered /\ tdbOp.ch = "False") => ~tdbOp.tdbWrite


\* ------------------------------------------------------------------------
\* C38: two direct_update calls on a clustered healthy store that update
\* different fields and have both returned are both reflected in the
\* stored data, however they interleaved.
Reflected(p) == \A k \in DOMAIN duArg[p] : k \in DOMAIN tdb.data /\ tdb.data[k] = duArg[p][k]

Updated(p) == duPc[p] = "done" /\ duRet[p].outcome = "ok"

C38_NoLostUpdate ==
    \A p, q \in Updaters :
        (p # q /\ Updated(p) /\ Updated(q) /\ DOMAIN duArg[p] # DOMAIN duArg[q])
            => Reflected(p) /\ Reflected(q)


\* ------------------------------------------------------------------------
\* C39: tdb_defaults keeps its configured value through every operation,
\* and a degraded read returns that value, whatever callers did to earlier
\* results and whatever direct_update merged into a copy.
ConfiguredDefaults == dfSvc.tdb_defaults

C39_DefaultsNeverChange ==
    /\ dfDefaults = ConfiguredDefaults
    /\ dfOp.op \in {"read", "query"} => dfRet[dfOp.by].value = ConfiguredDefaults

C39_Witness ==
    \E p, q \in Readers :
        /\ dfSvc.kind = "config"
        /\ dfRet[p].has /\ dfRet[p].value # ConfiguredDefaults
        /\ dfStore.has /\ dfStore.value # ConfiguredDefaults
        /\ dfOp.op = "read" /\ dfOp.by = q
        /\ dfRet[q].value = ConfiguredDefaults

====
